---- MODULE Spec2Model ----
(***************************************************************************)
(* Model of the casestudypilot validation framework                        *)
(* (src/casestudypilot/validation.py) and of the validate-* commands of    *)
(* its CLI (src/casestudypilot/__main__.py).                               *)
(*                                                                         *)
(* A validator is a pure function from its inputs to a ValidationResult.   *)
(* The state machine has a caller that is idle, calls one validator or one *)
(* CLI command with inputs drawn from bounded sets, holds the result, and  *)
(* returns to idle.                                                        *)
(*                                                                         *)
(* Python str values are modelled as sequences of one-character strings;   *)
(* the inputs are written as TLA+ strings, which Chars turns into such     *)
(* sequences.  Lengths that only matter through len() are modelled         *)
(* by the number itself.  Floats that only matter through comparisons with *)
(* two-decimal literals are modelled in hundredths.                        *)
(***************************************************************************)
EXTENDS Integers, Sequences, FiniteSets, TLC

VARIABLES fn, args, result, raised, exit_code

vars == <<fn, args, result, raised, exit_code>>

(***************************************************************************)
(* Bounds of the model                                                     *)
(***************************************************************************)
\* inputs are drawn within Margin of every numeric threshold of the code
Margin == 1

\* Python None (as a message, or as a details value)
None == "<None>"

\* the value of exit_code while no CLI command has exited
NoExit == -1

Near(x) == (x - Margin)..(x + Margin)

(***************************************************************************)
(* Python str: a sequence of one-character strings.  Chars(w) is the str   *)
(* written w.                                                              *)
(***************************************************************************)
Chars(w) == [i \in 1..Len(w) |-> SubSeq(w, i, i)]

UpperLetters == <<"A", "B", "C", "D", "E", "F", "G", "H", "I", "J", "K", "L", "M",
                  "N", "O", "P", "Q", "R", "S", "T", "U", "V", "W", "X", "Y", "Z">>
LowerLetters == <<"a", "b", "c", "d", "e", "f", "g", "h", "i", "j", "k", "l", "m",
                  "n", "o", "p", "q", "r", "s", "t", "u", "v", "w", "x", "y", "z">>
Digits == {"0", "1", "2", "3", "4", "5", "6", "7", "8", "9"}
Whitespace == {" ", "\n", "\t"}

Range(f) == {f[i] : i \in DOMAIN f}

LowerChar ==
    [c \in Range(UpperLetters) |->
        LowerLetters[CHOOSE i \in 1..26 : UpperLetters[i] = c]]

\* str.lower()
Lower(s) == [i \in 1..Len(s) |-> IF s[i] \in DOMAIN LowerChar THEN LowerChar[s[i]] ELSE s[i]]

\* the regex class \w
IsWordChar(c) == c \in Range(UpperLetters) \cup Range(LowerLetters) \cup Digits \cup {"_"}

\* s[i:j] with 0-based i, j as in Python (characters i+1..j of the sequence)
Slice(s, i, j) == IF j <= i THEN <<>> ELSE SubSeq(s, i + 1, j)

\* str.strip()
Strip(s) ==
    LET nonws == {i \in 1..Len(s) : s[i] \notin Whitespace}
    IN  IF nonws = {} THEN <<>>
        ELSE SubSeq(s, CHOOSE i \in nonws : \A j \in nonws : i <= j,
                       CHOOSE i \in nonws : \A j \in nonws : i >= j)

\* p occurs in t at 0-based offset i
MatchesAt(p, t, i) ==
    /\ i + Len(p) <= Len(t)
    /\ \A k \in 1..Len(p) : t[i + k] = p[k]

\* the str operator "in"
IsSubstring(p, t) == \E i \in 0..(Len(t) - Len(p)) : MatchesAt(p, t, i)

\* sep.join(parts)
RECURSIVE Join(_, _)
Join(parts, sep) ==
    IF Len(parts) = 0 THEN <<>>
    ELSE IF Len(parts) = 1 THEN parts[1]
    ELSE parts[1] \o sep \o Join(Tail(parts), sep)

\* str.split(): the maximal runs of non-whitespace characters, in order
RECURSIVE SplitFrom(_, _)
SplitFrom(s, i) ==
    IF i > Len(s) THEN <<>>
    ELSE IF s[i] \in Whitespace THEN SplitFrom(s, i + 1)
    ELSE LET stops == {j \in i..Len(s) : s[j] \in Whitespace}
             e == IF stops = {} THEN Len(s) + 1
                  ELSE CHOOSE j \in stops : \A k \in stops : j <= k
         IN  <<SubSeq(s, i, e - 1)>> \o SplitFrom(s, e)

Split(s) == SplitFrom(s, 1)

\* the str a sequence of words spells when joined by single spaces
Text(words) == Join([i \in 1..Len(words) |-> Chars(words[i])], <<" ">>)

\* all sequences over S of length lo..hi
SeqsOf(S, lo, hi) == UNION {[1..n -> S] : n \in lo..hi}

(***************************************************************************)
(* Regular expressions of the form \b + re.escape(p) + \b                  *)
(***************************************************************************)
\* \b at 0-based position i of t: exactly one of t[i-1], t[i] is a \w character
WordBoundary(t, i) ==
    LET before == i > 0 /\ IsWordChar(t[i])
        after == i < Len(t) /\ IsWordChar(t[i + 1])
    IN  before # after

\* the pattern matches at offset i whatever surrounds it
SubstringMatchAt(p, t, i) == MatchesAt(p, t, i)

\* the pattern matches at offset i
WordMatchAt(p, t, i) ==
    /\ MatchesAt(p, t, i)
    /\ WordBoundary(t, i)
    /\ WordBoundary(t, i + Len(p))

\* re.search(pattern, t) is not None
WordSearch(p, t) == \E i \in 0..(Len(t) - Len(p)) : WordMatchAt(p, t, i)

\* len(re.findall(pattern, t)): leftmost matches, each scan resuming where the
\* last match ended (one further after an empty match)
RECURSIVE WordFindallFrom(_, _, _)
WordFindallFrom(p, t, pos) ==
    IF pos + Len(p) > Len(t) THEN 0
    ELSE IF WordMatchAt(p, t, pos)
         THEN 1 + WordFindallFrom(p, t, IF Len(p) = 0 THEN pos + 1 ELSE pos + Len(p))
         ELSE WordFindallFrom(p, t, pos + 1)

WordFindallCount(p, t) == WordFindallFrom(p, t, 0)

(***************************************************************************)
(* Result model: Severity, ValidationCheck, ValidationResult               *)
(***************************************************************************)
CRITICAL == "CRITICAL"
WARNING == "WARNING"
INFO == "INFO"
PASS == "PASS"

Severity == {CRITICAL, WARNING, INFO, PASS}

ValidationCheck(name, passed, severity, message, details) ==
    [name |-> name, passed |-> passed, severity |-> severity,
     message |-> message, details |-> details]

ValidationResult(status, checks) == [status |-> status, checks |-> checks]

is_critical(r) == r.status = CRITICAL

\* warnings read off the status instead of the checks
has_warnings_from_status(r) == r.status = WARNING

has_warnings(r) == \E i \in 1..Len(r.checks) : r.checks[i].severity = WARNING

get_failed_checks(r) == SelectSeq(r.checks, LAMBDA c : ~c.passed)

\* the "determine status" loop every validator but validate_company_name and
\* validate_metrics ends with: the scan stops at the first failed CRITICAL check
RECURSIVE StatusLoop(_, _, _)
StatusLoop(checks, i, status) ==
    IF i > Len(checks) THEN status
    ELSE IF ~checks[i].passed
         THEN IF checks[i].severity = CRITICAL THEN CRITICAL
              ELSE IF checks[i].severity = WARNING /\ status = PASS
                   THEN StatusLoop(checks, i + 1, WARNING)
                   ELSE StatusLoop(checks, i + 1, status)
         ELSE StatusLoop(checks, i + 1, status)

\* a loop that stops at the first failed check of any severity
RECURSIVE StatusLoopFirstFailure(_, _, _)
StatusLoopFirstFailure(checks, i, status) ==
    IF i > Len(checks) THEN status
    ELSE IF ~checks[i].passed
         THEN IF checks[i].severity \in {CRITICAL, WARNING}
              THEN checks[i].severity ELSE status
         ELSE StatusLoopFirstFailure(checks, i + 1, status)

DetermineStatusFirstFailure(checks) == StatusLoopFirstFailure(checks, 1, PASS)

\* a loop without break in which every failed check overwrites the status
RECURSIVE StatusLoopLastFailure(_, _, _)
StatusLoopLastFailure(checks, i, status) ==
    IF i > Len(checks) THEN status
    ELSE IF ~checks[i].passed /\ checks[i].severity \in {CRITICAL, WARNING}
         THEN StatusLoopLastFailure(checks, i + 1, checks[i].severity)
         ELSE StatusLoopLastFailure(checks, i + 1, status)

DetermineStatusLastFailure(checks) == StatusLoopLastFailure(checks, 1, PASS)

DetermineStatus(checks) == StatusLoop(checks, 1, PASS)

\* the loop of validate_company_name: no break, CRITICAL is sticky
RECURSIVE StatusLoopNoBreak(_, _, _)
StatusLoopNoBreak(checks, i, status) ==
    IF i > Len(checks) THEN status
    ELSE IF ~checks[i].passed
         THEN IF checks[i].severity = CRITICAL /\ status # CRITICAL
              THEN StatusLoopNoBreak(checks, i + 1, CRITICAL)
              ELSE IF checks[i].severity = WARNING /\ status = PASS
                   THEN StatusLoopNoBreak(checks, i + 1, WARNING)
                   ELSE StatusLoopNoBreak(checks, i + 1, status)
         ELSE StatusLoopNoBreak(checks, i + 1, status)

DetermineStatusNoBreak(checks) == StatusLoopNoBreak(checks, 1, PASS)

\* a check that is appended only under a condition
Opt(cond, check) == IF cond THEN <<check>> ELSE <<>>

(***************************************************************************)
(* validate_transcript(transcript, segments)                               *)
(*   transcript: [is_none, length, words]  (len(), len(split()))           *)
(*   segments:   [is_none, count]                                          *)
(***************************************************************************)
min_length == 1000
min_words == 100
min_segments == 50
short_length == 5000

\* a test that takes the empty string for a transcript
is_not_none(t) == ~t.is_none

\* bool(transcript): neither None nor the empty string
Truthy(t) == ~t.is_none /\ t.length > 0

\* a threshold that excludes its boundary
exceeds_minimum(value, minimum) == value > minimum

\* value >= minimum, the form of the three CRITICAL thresholds
meets_minimum(value, minimum) == value >= minimum

transcript_checks(transcript, segments) ==
    LET transcript_length == IF Truthy(transcript) THEN transcript.length ELSE 0
        word_count == IF Truthy(transcript) THEN transcript.words ELSE 0
        segment_count == IF ~segments.is_none /\ segments.count > 0
                         THEN segments.count ELSE 0
    IN  << ValidationCheck("transcript_exists", Truthy(transcript), CRITICAL,
               IF ~Truthy(transcript) THEN "Transcript is empty or None" ELSE None,
               None),
           ValidationCheck("minimum_length", meets_minimum(transcript_length, min_length), CRITICAL,
               IF transcript_length < min_length THEN "Transcript too short" ELSE None,
               [length |-> transcript_length, minimum |-> min_length]),
           ValidationCheck("meaningful_content", meets_minimum(word_count, min_words), CRITICAL,
               IF word_count < min_words THEN "Transcript lacks meaningful content" ELSE None,
               [word_count |-> word_count]),
           ValidationCheck("sufficient_segments", meets_minimum(segment_count, min_segments), CRITICAL,
               IF segment_count < min_segments THEN "Too few transcript segments" ELSE None,
               [segment_count |-> segment_count]) >>
        \o Opt(Truthy(transcript) /\ transcript.length < short_length,
               ValidationCheck("short_transcript", FALSE, WARNING,
                   "Short transcript. Generated case study may lack detail.",
                   [length |-> transcript.length]))

validate_transcript(transcript, segments) ==
    LET checks == transcript_checks(transcript, segments)
    IN  ValidationResult(DetermineStatus(checks), checks)

\* the transcripts the model draws: a length, and a word count a string of that
\* length can have (n words need at least 2n-1 characters)
TranscriptLengths == {0, 1, 200} \cup Near(min_length) \cup Near(short_length)
WordCounts == {0, 1} \cup Near(min_words)
Transcripts ==
    {[is_none |-> TRUE, length |-> 0, words |-> 0]} \cup
    {[is_none |-> FALSE, length |-> l, words |-> w] :
        <<l, w>> \in {p \in TranscriptLengths \X WordCounts : 2 * p[2] <= p[1] + 1}}
Segments ==
    {[is_none |-> TRUE, count |-> 0]} \cup
    {[is_none |-> FALSE, count |-> c] : c \in {0} \cup Near(min_segments)}

(***************************************************************************)
(* validate_company_name(company_name, video_title, confidence)            *)
(*   company_name: a string, or None                                       *)
(*   confidence:   hundredths (0.5 is 50, 0.7 is 70)                       *)
(***************************************************************************)
generic_names == <<"company", "organization", "tech", "unknown", "tbd", "n/a", "none">>

min_name_length == 2
critical_confidence == 50
warning_confidence == 70

\* bool(company_name)
NameTruthy(company_name) == company_name # None /\ Len(Chars(company_name)) > 0

\* a grading that fails the whole range below the warning threshold critically
confidence_severity_flat(confidence) ==
    IF confidence < warning_confidence THEN CRITICAL ELSE INFO

\* a grading that leaves the severity WARNING on a check that passed
confidence_severity_never_info(confidence) ==
    IF confidence < critical_confidence THEN CRITICAL ELSE WARNING

\* the graduated severity of the confidence_threshold check
confidence_severity(confidence) ==
    IF confidence < critical_confidence THEN CRITICAL
    ELSE IF confidence < warning_confidence THEN WARNING
    ELSE INFO

company_name_checks(company_name, confidence) ==
    LET exists == NameTruthy(company_name) /\ Len(Strip(Chars(company_name))) > 0
        is_generic == IF NameTruthy(company_name)
                      THEN \E i \in 1..Len(generic_names) :
                               Strip(Lower(Chars(company_name))) = Chars(generic_names[i])
                      ELSE TRUE
        name_length == IF NameTruthy(company_name) THEN Len(Chars(company_name)) ELSE 0
        severity == confidence_severity(confidence)
    IN  << ValidationCheck("company_exists", exists, CRITICAL,
               IF ~NameTruthy(company_name) THEN "No company name provided" ELSE None,
               None),
           ValidationCheck("not_generic", ~is_generic, CRITICAL,
               IF is_generic THEN "Company name is generic placeholder" ELSE None,
               None),
           ValidationCheck("minimum_length", name_length >= min_name_length, CRITICAL,
               IF name_length < min_name_length THEN "Company name too short" ELSE None,
               None),
           ValidationCheck("confidence_threshold", confidence >= warning_confidence, severity,
               IF confidence < warning_confidence
               THEN "Low confidence in company extraction" ELSE None,
               [confidence |-> confidence]) >>

validate_company_name(company_name, video_title, confidence) ==
    LET checks == company_name_checks(company_name, confidence)
    IN  ValidationResult(DetermineStatusNoBreak(checks), checks)

CompanyNames == {None, "", " ", "A", " A", "Acme", "Company", " TBD ", "N/A", "Tech", "IBM"}
Confidences == {0, 30, 60, 80, 100} \cup Near(critical_confidence) \cup Near(warning_confidence)

(***************************************************************************)
(* validate_analysis(analysis)                                             *)
(*   analysis: [keys, project_count, metric_count, sections] where keys is *)
(*   the set of top-level keys present and sections maps the section names *)
(*   present to len() of their content (0: empty or None)                  *)
(***************************************************************************)
required_keys == <<"cncf_projects", "key_metrics", "sections">>
required_sections == <<"background", "challenge", "solution", "impact">>
min_chars == 100

\* analysis.get(key, default) for the three keys
cncf_projects_of(analysis) ==
    IF "cncf_projects" \in analysis.keys THEN analysis.project_count ELSE 0
key_metrics_of(analysis) ==
    IF "key_metrics" \in analysis.keys THEN analysis.metric_count ELSE 0
sections_of(analysis) ==
    IF "sections" \in analysis.keys THEN analysis.sections ELSE <<>>

section_length_checks(sections) ==
    LET present == SelectSeq(required_sections, LAMBDA s : s \in DOMAIN sections)
    IN  [i \in 1..Len(present) |->
            ValidationCheck("section_" \o present[i] \o "_length",
                sections[present[i]] >= min_chars, CRITICAL,
                IF sections[present[i]] < min_chars THEN "Section too short" ELSE None,
                [section |-> present[i], length |-> sections[present[i]]])]

analysis_checks(analysis) ==
    LET missing_keys == SelectSeq(required_keys, LAMBDA k : k \notin analysis.keys)
        project_count == cncf_projects_of(analysis)
        sections == sections_of(analysis)
        missing_sections ==
            SelectSeq(required_sections,
                      LAMBDA s : s \notin DOMAIN sections \/ sections[s] = 0)
        metric_count == key_metrics_of(analysis)
    IN  << ValidationCheck("required_keys", Len(missing_keys) = 0, CRITICAL,
               IF Len(missing_keys) > 0 THEN "Missing required keys" ELSE None,
               [missing_keys |-> missing_keys]),
           ValidationCheck("has_cncf_projects", project_count >= 1, CRITICAL,
               IF project_count = 0 THEN "No CNCF projects identified." ELSE None,
               [project_count |-> project_count]) >>
        \o Opt(project_count = 1,
               ValidationCheck("multiple_projects", FALSE, WARNING,
                   "Only 1 CNCF project found. Case study may lack technical depth.",
                   [project_count |-> 1]))
        \o << ValidationCheck("all_sections_present", Len(missing_sections) = 0, CRITICAL,
               IF Len(missing_sections) > 0 THEN "Missing required sections" ELSE None,
               [missing_sections |-> missing_sections]) >>
        \o section_length_checks(sections)
        \o Opt(metric_count = 0,
               ValidationCheck("has_metrics", FALSE, WARNING,
                   "No quantitative metrics found.",
                   [metric_count |-> 0]))

validate_analysis(analysis) ==
    LET checks == analysis_checks(analysis)
    IN  ValidationResult(DetermineStatus(checks), checks)

MaxProjects == 2
MaxMetrics == 1
SectionLengths == {0, min_chars - 1, min_chars}
SectionMaps ==
    UNION {[D -> SectionLengths] : D \in SUBSET Range(required_sections)}
Analyses ==
    {[keys |-> K,
      project_count |-> IF "cncf_projects" \in K THEN p ELSE 0,
      metric_count |-> IF "key_metrics" \in K THEN m ELSE 0,
      sections |-> IF "sections" \in K THEN s ELSE <<>>] :
        K \in SUBSET Range(required_keys), p \in 0..MaxProjects,
        m \in 0..MaxMetrics, s \in SectionMaps}

(***************************************************************************)
(* validate_company_consistency(expected_company, generated_sections,      *)
(*                              video_data)                                *)
(*   expected_company:   a string                                          *)
(*   generated_sections: the values of the mapping, in order, each a word  *)
(*                       or phrase                                         *)
(***************************************************************************)
known_companies ==
    <<"Spotify", "Netflix", "Uber", "Airbnb", "Adobe", "Apple", "Google", "Microsoft",
      "Amazon", "Facebook", "Meta", "Twitter", "LinkedIn", "Slack", "Dropbox", "GitHub",
      "GitLab", "Atlassian", "Salesforce", "Oracle", "IBM", "Red Hat", "Intel", "Nvidia",
      "Tesla", "Intuit", "PayPal", "eBay", "Etsy", "Lyft", "DoorDash", "Stripe", "Square",
      "Shopify">>

\* " ".join(str(v) for v in generated_sections.values())
all_generated_text(generated_sections) == Text(generated_sections)

\* In the four operators below, text is all_generated_text.lower().

\* expected_company.lower() in all_generated_text.lower()
expected_mentioned(expected_company, text) ==
    IsSubstring(Lower(Chars(expected_company)), text)

\* the known companies other than the expected one that the text mentions
other_companies_mentioned(expected_company, text) ==
    SelectSeq(known_companies,
              LAMBDA company :
                  /\ Lower(Chars(company)) # Lower(Chars(expected_company))
                  /\ WordSearch(Lower(Chars(company)), text))

\* the dict company -> count, in insertion order
mention_counts(others, text) ==
    [i \in 1..Len(others) |->
        [company |-> others[i],
         mentions |-> WordFindallCount(Lower(Chars(others[i])), text)]]

\* max(mention_counts.values())
most_mentioned(counts) ==
    IF Len(counts) = 0 THEN 0
    ELSE LET vals == {counts[i].mentions : i \in 1..Len(counts)}
         IN  CHOOSE m \in vals : \A v \in vals : m >= v

expected_mentions(expected_company, text) ==
    WordFindallCount(Lower(Chars(expected_company)), text)

\* a tie already counts as a mismatch
is_mismatch_or_tie(most, expected) == most >= expected

\* the other company is the subject: it is mentioned more than the expected one
is_mismatch(most, expected) == most > expected

company_consistency_checks(expected_company, generated_sections) ==
    LET text == Lower(all_generated_text(generated_sections))
        mentioned == expected_mentioned(expected_company, text)
        others == other_companies_mentioned(expected_company, text)
        counts == mention_counts(others, text)
        most == most_mentioned(counts)
        expected == expected_mentions(expected_company, text)
    IN  << ValidationCheck("expected_company_mentioned", mentioned, CRITICAL,
               IF ~mentioned THEN "Expected company not mentioned in generated case study!"
               ELSE None,
               None) >>
        \o (IF Len(others) > 0
            THEN IF is_mismatch(most, expected)
                 THEN << ValidationCheck("company_mismatch", FALSE, CRITICAL,
                            "Company mismatch! STOPPING to prevent incorrect attribution.",
                            [expected |-> expected_company,
                             expected_mentions |-> expected,
                             other_companies |-> counts]) >>
                 ELSE << ValidationCheck("other_companies_mentioned", FALSE, WARNING,
                            "Other companies mentioned. Verify they are partners/competitors.",
                            [other_companies |-> counts]) >>
            ELSE <<>>)

validate_company_consistency(expected_company, generated_sections, video_data) ==
    LET checks == company_consistency_checks(expected_company, generated_sections)
    IN  ValidationResult(DetermineStatus(checks), checks)

MaxSections == 3
ExpectedCompanies == {"Intuit", "Uber", "spotify"}
ConsistencyValues == {"Intuit", "Spotify", "SPOTIFY,", "Kubernetes"}
ConsistencySections == SeqsOf(ConsistencyValues, 0, MaxSections)

(***************************************************************************)
(* validate_metrics(generated_sections, original_transcript, analysis)     *)
(*   generated_sections:  the values of the mapping, in order, each a word *)
(*                        or phrase                                        *)
(*   original_transcript: a string                                         *)
(***************************************************************************)
\* the end of the longest run of characters of S that starts at offset i
RECURSIVE RunEnd(_, _, _)
RunEnd(t, i, S) == IF i < Len(t) /\ t[i + 1] \in S THEN RunEnd(t, i + 1, S) ELSE i

count_units == <<"pod", "service", "node", "cluster", "user", "request", "microservice">>
duration_units == <<"hour", "minute", "second", "day", "week", "month">>

\* (?:unit1s?|unit2s?|...) at offset i of t, the first alternative that matches:
\* the end of the match, or -1.  re.IGNORECASE: t is compared in lower case.
UnitEnd(units, t, i) ==
    LET hits == {k \in 1..Len(units) :
                    /\ i + Len(Chars(units[k])) <= Len(t)
                    /\ Lower(SubSeq(t, i + 1, i + Len(Chars(units[k])))) = Chars(units[k])}
    IN  IF hits = {} THEN -1
        ELSE LET k == CHOOSE x \in hits : \A y \in hits : x <= y
                 e == i + Len(Chars(units[k]))
             IN  IF e < Len(t) /\ t[e + 1] \in {"s", "S"} THEN e + 1 ELSE e

\* metric_patterns[k] tried at offset i: the end of the match, or -1
MetricMatchEnd(k, t, i) ==
    LET d == RunEnd(t, i, Digits)
        n == RunEnd(t, i, Digits \cup {","})
    IN  CASE k = 1 ->   \* \d+%
               IF d > i /\ d < Len(t) /\ t[d + 1] = "%" THEN d + 1 ELSE -1
          [] k = 2 ->   \* \d+x
               IF d > i /\ d < Len(t) /\ t[d + 1] \in {"x", "X"} THEN d + 1 ELSE -1
          [] k = 3 ->   \* \d+[,\d]*\s+(?:pods?|services?|...)
               LET w == RunEnd(t, n, Whitespace)
               IN  IF d > i /\ w > n THEN UnitEnd(count_units, t, w) ELSE -1
          [] k = 4 ->   \* \d+\s+(?:hours?|minutes?|...)
               LET w == RunEnd(t, d, Whitespace)
               IN  IF d > i /\ w > d THEN UnitEnd(duration_units, t, w) ELSE -1
          [] k = 5 ->   \* \$\d+[,\d]*
               IF i < Len(t) /\ t[i + 1] = "$" /\ RunEnd(t, i + 1, Digits) > i + 1
               THEN RunEnd(t, i + 1, Digits \cup {","}) ELSE -1

\* re.findall(metric_patterns[k], t, re.IGNORECASE)
RECURSIVE MetricFindallFrom(_, _, _)
MetricFindallFrom(k, t, pos) ==
    IF pos >= Len(t) THEN <<>>
    ELSE LET e == MetricMatchEnd(k, t, pos)
         IN  IF e # -1 THEN <<Slice(t, pos, e)>> \o MetricFindallFrom(k, t, e)
             ELSE MetricFindallFrom(k, t, pos + 1)

found_metrics(text) ==
    MetricFindallFrom(1, text, 0) \o MetricFindallFrom(2, text, 0)
        \o MetricFindallFrom(3, text, 0) \o MetricFindallFrom(4, text, 0)
        \o MetricFindallFrom(5, text, 0)

\* metric.replace(",", "").replace("$", "")
metric_normalized(metric) == SelectSeq(metric, LAMBDA c : c \notin {",", "$"})

Max(a, b) == IF a >= b THEN a ELSE b

\* one row of the longest-common-subsequence table: acc[j + 1] is the length for
\* the characters read so far of a and the first j characters of b
RECURSIVE LcsRow(_, _, _, _)
LcsRow(c, b, prev, acc) ==
    IF Len(acc) = Len(b) + 1 THEN acc
    ELSE LET j == Len(acc)
         IN  LcsRow(c, b, prev,
                    Append(acc, IF c = b[j] THEN prev[j] + 1
                                ELSE Max(prev[j + 1], acc[j])))

RECURSIVE LcsRows(_, _, _, _)
LcsRows(a, b, i, prev) ==
    IF i > Len(a) THEN prev[Len(b) + 1]
    ELSE LcsRows(a, b, i + 1, LcsRow(a[i], b, prev, <<0>>))

Lcs(a, b) == LcsRows(a, b, 1, [j \in 1..(Len(b) + 1) |-> 0])

\* fuzz.ratio(a, b) > percent: the normalized indel similarity 2*lcs/(|a|+|b|)
RatioAbove(a, b, percent) == 200 * Lcs(a, b) > percent * (Len(a) + Len(b))

\* the substrings of the longer string that partial_ratio aligns the shorter one
\* (of length n) with: the windows of length n, and the shorter prefixes and suffixes
Windows(long, n) ==
    {Slice(long, 0, i) : i \in 1..(n - 1)}
        \cup {Slice(long, i, i + n) : i \in 0..(Len(long) - n)}
        \cup {Slice(long, i, Len(long)) : i \in (Len(long) - n + 1)..(Len(long) - 1)}

\* fuzz.partial_ratio(s1, s2) > percent
PartialRatioAbove(s1, s2, percent) ==
    IF Len(s1) = 0 \/ Len(s2) = 0 THEN Len(s1) = 0 /\ Len(s2) = 0
    ELSE IF Len(s1) < Len(s2)
         THEN \E w \in Windows(s2, Len(s1)) : RatioAbove(s1, w, percent)
    ELSE IF Len(s2) < Len(s1)
         THEN \E w \in Windows(s1, Len(s2)) : RatioAbove(s2, w, percent)
    ELSE \/ \E w \in Windows(s2, Len(s1)) : RatioAbove(s1, w, percent)
         \/ \E w \in Windows(s1, Len(s2)) : RatioAbove(s2, w, percent)

fuzzy_threshold == 85

\* the metric is in the transcript as written
metric_verified_exact(metric, transcript) == IsSubstring(metric, transcript)

\* the metric is in the transcript, or close to one of its chunks
metric_verified(metric, transcript) ==
    \/ IsSubstring(metric, transcript)
    \/ LET chunks == Split(transcript)
       IN  \E i \in 1..Len(chunks) :
               PartialRatioAbove(metric_normalized(metric), chunks[i], fuzzy_threshold)

fabricated_metrics(generated_sections, original_transcript) ==
    SelectSeq(found_metrics(all_generated_text(generated_sections)),
              LAMBDA metric : ~metric_verified(metric, Chars(original_transcript)))

metrics_checks(fabricated) ==
        IF Len(fabricated) > 0
        THEN << ValidationCheck("metrics_in_transcript", FALSE, WARNING,
                    "Found metric(s) in case study that don't appear in transcript",
                    [fabricated_metrics |-> fabricated]) >>
        ELSE << ValidationCheck("metrics_in_transcript", TRUE, INFO,
                    "All metrics verified against transcript", None) >>

\* a status that escalates fabricated metrics like the other validators' failures
metrics_status_escalating(fabricated) == IF Len(fabricated) > 0 THEN CRITICAL ELSE PASS

metrics_status(fabricated) == IF Len(fabricated) > 0 THEN WARNING ELSE PASS

validate_metrics(generated_sections, original_transcript, analysis) ==
    LET fabricated == fabricated_metrics(generated_sections, original_transcript)
    IN  ValidationResult(metrics_status(fabricated), metrics_checks(fabricated))

MaxGenerated == 2
GeneratedValues == {"50%", "3x", "10,000 pods", "2 hours", "$100,000", "saved 12 Nodes"}
GeneratedSections == SeqsOf(GeneratedValues, 0, MaxGenerated)
OriginalTranscripts ==
    {"", "50 percent", "50%", "50percent", "3x 2 hours", "x", "10,000 pods",
     "10000 pods", "100,000", "$100,000 saved 12 nodes", "12"}

(***************************************************************************)
(* Regular expressions that are a sequence of literals, optional literals, *)
(* .*? and \d+, matched within one line (. does not match a newline)       *)
(***************************************************************************)
Lit(w) == [kind |-> "lit", chars |-> Chars(w)]

\* (?:w)?
OptLit(w) == [kind |-> "opt", chars |-> Chars(w)]

\* .*?
LazyAny == [kind |-> "any", chars |-> <<>>]

\* \d+
DigitRun == [kind |-> "digits", chars |-> <<>>]

Least(S) == CHOOSE x \in S : \A y \in S : x <= y

\* the offsets at which element e can end when it starts at an offset of starts
ElementEnds(e, t, starts) ==
    LET shifted == {s + Len(e.chars) : s \in {x \in starts : MatchesAt(e.chars, t, x)}}
    IN  CASE e.kind = "lit" -> shifted
          [] e.kind = "opt" -> starts \cup shifted
          [] e.kind = "any" -> IF starts = {} THEN {} ELSE Least(starts)..Len(t)
          [] e.kind = "digits" ->
                 {j \in 1..Len(t) : \E s \in starts :
                     s < j /\ \A k \in (s + 1)..j : t[k] \in Digits}

\* the offsets at which a match of the pattern that starts in starts can end
RECURSIVE RegexEnds(_, _, _)
RegexEnds(elems, t, starts) ==
    IF Len(elems) = 0 \/ starts = {} THEN starts
    ELSE RegexEnds(Tail(elems), t, ElementEnds(Head(elems), t, starts))

\* re.search(pattern, line) is not None
RegexSearch(elems, t) == RegexEnds(elems, t, 0..Len(t)) # {}

\* re.findall(pattern, line): the <<start, end>> of the non-overlapping matches,
\* leftmost first; a lazy .*? stops at the first offset that lets the rest match
RECURSIVE RegexFindallFrom(_, _, _)
RegexFindallFrom(elems, t, pos) ==
    LET begins == {p \in pos..Len(t) : RegexEnds(elems, t, {p}) # {}}
    IN  IF begins = {} THEN <<>>
        ELSE LET begin == Least(begins)
                 end == Least(RegexEnds(elems, t, {begin}))
             IN  <<<<begin, end>>>> \o
                 RegexFindallFrom(elems, t, IF end = begin THEN begin + 1 ELSE end)

RegexFindall(elems, t) == RegexFindallFrom(elems, t, 0)

\* the matches of a pattern in a text given as its lines
RECURSIVE FindallInLines(_, _)
FindallInLines(elems, lines) ==
    IF Len(lines) = 0 THEN <<>>
    ELSE LET t == Chars(Head(lines))
             found == RegexFindall(elems, t)
         IN  [i \in 1..Len(found) |-> Slice(t, found[i][1], found[i][2])]
             \o FindallInLines(elems, Tail(lines))

\* int(s) of a string of decimal digits
RECURSIVE DigitsToInt(_)
DigitsToInt(s) ==
    IF Len(s) = 0 THEN 0
    ELSE 10 * DigitsToInt(SubSeq(s, 1, Len(s) - 1))
         + (CHOOSE d \in 0..9 : ToString(d) = s[Len(s)])

(***************************************************************************)
(* validate_case_study_format(case_study_path)                             *)
(*   the file at the path: [kind, lines]; kind is "missing", "unreadable"  *)
(*   (permission denied, a directory, bytes that are not UTF-8) or "file"; *)
(*   lines is content.split("\n") as strings                               *)
(***************************************************************************)
absolute_image_pattern == <<Lit("!["), LazyAny, Lit("](case-studies/images/")>>

clickable_screenshot_pattern ==
    <<Lit("[!["), LazyAny, Lit("](images/"), LazyAny,
      Lit(")](https://www.youtube.com/watch?v="), LazyAny, Lit("&t="), DigitRun, Lit("s)")>>

image_line_pattern == <<Lit("!["), LazyAny, Lit("]("), OptLit("case-studies/"), Lit("images/")>>

linked_image_line_pattern ==
    <<Lit("[!["), LazyAny, Lit("]("), OptLit("case-studies/"), Lit("images/"), LazyAny,
      Lit(")](http"), OptLit("s"), Lit("://")>>

timestamp_pattern == <<Lit("&t="), DigitRun, Lit("s")>>

\* open() raises something other than FileNotFoundError, which nothing catches
case_study_format_raises(file) == IF file.kind = "unreadable" THEN "OSError" ELSE None

\* the lines with an image that is not inside a link, stripped
all_image_lines(lines) ==
    LET kept == SelectSeq(lines, LAMBDA l :
                    /\ RegexSearch(image_line_pattern, Chars(l))
                    /\ ~RegexSearch(linked_image_line_pattern, Chars(l)))
    IN  [i \in 1..Len(kept) |-> Strip(Chars(kept[i]))]

\* timestamps read with their sign, &t=(-?\d+)s
timestamps_of_signed(lines) ==
    LET found == FindallInLines(<<Lit("&t="), OptLit("-"), DigitRun, Lit("s")>>, lines)
        Value(s) == IF Head(s) = "-" THEN 0 - DigitsToInt(Tail(s)) ELSE DigitsToInt(s)
    IN  [i \in 1..Len(found) |-> Value(Slice(found[i], 3, Len(found[i]) - 1))]

\* [int(t) for t in re.findall(timestamp_pattern, content)]
timestamps_of(lines) ==
    LET found == FindallInLines(timestamp_pattern, lines)
    IN  [i \in 1..Len(found) |-> DigitsToInt(Slice(found[i], 3, Len(found[i]) - 1))]

case_study_format_checks(lines) ==
    LET absolute_images == FindallInLines(absolute_image_pattern, lines)
        clickable_screenshots == FindallInLines(clickable_screenshot_pattern, lines)
        image_lines == all_image_lines(lines)
        timestamps == timestamps_of(lines)
    IN  << ValidationCheck("file_exists", TRUE, INFO, "Case study file exists", None),
           IF Len(absolute_images) > 0
           THEN ValidationCheck("relative_image_paths", FALSE, CRITICAL,
                    "Found image(s) with absolute paths",
                    [absolute_paths_found |-> Len(absolute_images)])
           ELSE ValidationCheck("relative_image_paths", TRUE, INFO,
                    "All image paths are relative", None),
           IF Len(image_lines) > 0
           THEN ValidationCheck("clickable_screenshot_links", FALSE, CRITICAL,
                    "Found non-clickable screenshot(s)",
                    [non_clickable_count |-> Len(image_lines)])
           ELSE IF Len(clickable_screenshots) > 0
           THEN ValidationCheck("clickable_screenshot_links", TRUE, INFO,
                    "All screenshot(s) are clickable links to video timestamps",
                    [clickable_count |-> Len(clickable_screenshots)])
           ELSE ValidationCheck("clickable_screenshot_links", TRUE, INFO,
                    "No screenshots found in case study", None) >>
        \o Opt(Len(clickable_screenshots) > 0,
               IF \A i \in 1..Len(timestamps) : timestamps[i] >= 0
               THEN ValidationCheck("valid_timestamps", TRUE, INFO,
                        "All timestamp(s) are valid", [timestamps |-> timestamps])
               ELSE ValidationCheck("valid_timestamps", FALSE, CRITICAL,
                        "Found invalid timestamp(s)",
                        [invalid_timestamps |-> SelectSeq(timestamps, LAMBDA x : x < 0)]))

\* a missing file that does not end the validation: the checks go on over no content
validate_case_study_format_no_return(file) ==
    LET checks == IF file.kind = "missing"
                  THEN <<ValidationCheck("file_exists", FALSE, CRITICAL,
                             "Case study file not found", None)>>
                       \o Tail(case_study_format_checks(<<"">>))
                  ELSE case_study_format_checks(file.lines)
    IN  ValidationResult(DetermineStatus(checks), checks)

validate_case_study_format(file) ==
    IF file.kind = "missing"
    THEN ValidationResult(CRITICAL,
             <<ValidationCheck("file_exists", FALSE, CRITICAL, "Case study file not found", None)>>)
    ELSE LET checks == case_study_format_checks(file.lines)
         IN  ValidationResult(DetermineStatus(checks), checks)

MaxLines == 2
MarkdownLines ==
    {"", "# Title",
     "![a](case-studies/images/a.png)",
     "![a](images/a.png)",
     "[![a](images/a.png)](https://www.youtube.com/watch?v=x&t=12s)",
     "[![a](images/a.png)](https://example.com/a)",
     "[![a](images/a.png)](https://www.youtube.com/watch?v=x&t=5s) ![b](images/b.png)",
     "[![a](case-studies/images/a.png)](https://www.youtube.com/watch?v=x&t=12s)",
     "[![a](images/a.png)](https://youtu.be/x?t=12)",
     "[![a](images/a.png)](https://www.youtube.com/watch?v=x&t=-5s&t=3s)",
     "[![a](images/a.png)](https://www.youtube.com/watch?v=x&t=12s) [raw](case-studies/images/a.png)"}
CaseStudyFiles ==
    {[kind |-> "missing", lines |-> <<>>], [kind |-> "unreadable", lines |-> <<>>]} \cup
    {[kind |-> "file", lines |-> l] : l \in SeqsOf(MarkdownLines, 1, MaxLines)}

(***************************************************************************)
(* Videos of a multi-video data file: [success, video_id, title,           *)
(* description, transcript], the texts as strings                          *)
(***************************************************************************)
Video(success, video_id, title, description, transcript) ==
    [success |-> success, video_id |-> video_id, title |-> title,
     description |-> description, transcript |-> transcript]

\* [v for v in videos if v.get("success", False)]
successful(videos) == SelectSeq(videos, LAMBDA v : v.success)

\* name_lower in title or name_lower in description or name_lower in transcript
in_video(p, v) ==
    \/ IsSubstring(p, Lower(Chars(v.title)))
    \/ IsSubstring(p, Lower(Chars(v.description)))
    \/ IsSubstring(p, Lower(Chars(v.transcript)))

\* the lists a set can be iterated as: the order is that of the str hashes,
\* which differ from one process to the next
Orderings(S) ==
    {s \in [1..Cardinality(S) -> S] : \A i, j \in 1..Cardinality(S) : i # j => s[i] # s[j]}

(***************************************************************************)
(* validate_presenter(presenter_name, videos_data)                         *)
(*   presenter_name: a string, or None                                     *)
(*   videos_data:    the sequence videos_data["videos"]                    *)
(*   conflicts:      the conflicting names in the order the set of         *)
(*                   detected names is iterated                            *)
(***************************************************************************)
presenter_generic_names == <<"presenter", "speaker", "person", "user", "unknown", "tbd", "n/a">>

min_successful_videos == 2

\* truthiness of presenter_name
NameGiven(presenter_name) == presenter_name # None /\ Len(Chars(presenter_name)) > 0

is_generic(presenter_name) ==
    IF NameGiven(presenter_name)
    THEN Strip(Lower(Chars(presenter_name))) \in {Chars(g) : g \in Range(presenter_generic_names)}
    ELSE TRUE

\* None.lower() once there is a successful video
presenter_raises(presenter_name, videos) ==
    IF Len(successful(videos)) > 0 /\ presenter_name = None THEN "AttributeError" ELSE None

\* the full name, or a part of it longer than 2 characters, is in the video
name_in_video(presenter_name, v) ==
    LET name_lower == Lower(Chars(presenter_name))
        name_parts == Split(name_lower)
    IN  \/ in_video(name_lower, v)
        \/ \E i \in 1..Len(name_parts) : Len(name_parts[i]) > 2 /\ in_video(name_parts[i], v)

\* [a-z]+ from offset i: the end of the run of lower-case letters
RECURSIVE LowerRunEnd(_, _)
LowerRunEnd(t, i) ==
    IF i < Len(t) /\ t[i + 1] \in Range(LowerLetters) THEN LowerRunEnd(t, i + 1) ELSE i

\* \s* from offset i: the end of the run of whitespace
RECURSIVE SpaceRunEnd(_, _)
SpaceRunEnd(t, i) ==
    IF i < Len(t) /\ t[i + 1] \in Whitespace THEN SpaceRunEnd(t, i + 1) ELSE i

\* [A-Z][a-z]+ at offset i: the end of the match, or -1
CapWordEnd(t, i) ==
    IF i < Len(t) /\ t[i + 1] \in Range(UpperLetters) /\ LowerRunEnd(t, i + 1) > i + 1
    THEN LowerRunEnd(t, i + 1) ELSE -1

\* (?:\s+[A-Z][a-z]+)* from offset e, greedy: the end of the last repetition
RECURSIVE MoreWordsEnd(_, _)
MoreWordsEnd(t, e) ==
    LET w == SpaceRunEnd(t, e)
        c == IF w > e THEN CapWordEnd(t, w) ELSE -1
    IN  IF c = -1 THEN e ELSE MoreWordsEnd(t, c)

\* ([A-Z][a-z]+(?:\s+[A-Z][a-z]+)+) at offset i: the end of the match, or -1
FullNameEnd(t, i) ==
    LET first == CapWordEnd(t, i)
    IN  IF first = -1 THEN -1
        ELSE IF MoreWordsEnd(t, first) > first THEN MoreWordsEnd(t, first) ELSE -1

\* where the name group of pattern k starts for a match at offset i, or -1
\*   1  (?:speaker|presenter|by):\s*(...)    2  by\s+(...)    3  with\s+(...)
NameGroupStart(k, t, i) ==
    LET after(w) == IF MatchesAt(Chars(w), t, i) THEN i + Len(Chars(w)) ELSE -1
        label == IF after("speaker") # -1 THEN after("speaker")
                 ELSE IF after("presenter") # -1 THEN after("presenter")
                 ELSE after("by")
    IN  CASE k = 1 -> IF label # -1 /\ MatchesAt(<<":">>, t, label)
                      THEN SpaceRunEnd(t, label + 1) ELSE -1
          [] k = 2 -> IF after("by") # -1 /\ SpaceRunEnd(t, after("by")) > after("by")
                      THEN SpaceRunEnd(t, after("by")) ELSE -1
          [] k = 3 -> IF after("with") # -1 /\ SpaceRunEnd(t, after("with")) > after("with")
                      THEN SpaceRunEnd(t, after("with")) ELSE -1

\* re.finditer(pattern k, t) from offset pos: the stripped name groups
RECURSIVE NameFinditer(_, _, _)
NameFinditer(k, t, pos) ==
    IF pos >= Len(t) THEN {}
    ELSE LET g == NameGroupStart(k, t, pos)
             e == IF g = -1 THEN -1 ELSE FullNameEnd(t, g)
         IN  IF e = -1 THEN NameFinditer(k, t, pos + 1)
             ELSE {Strip(Slice(t, g, e))} \cup NameFinditer(k, t, e)

min_detected_length == 5

\* the names the three patterns find in title + " " + description of the videos
detected_names(videos) ==
    LET texts == {Chars(v.title) \o <<" ">> \o Chars(v.description) :
                     v \in Range(successful(videos))}
    IN  {n \in UNION {NameFinditer(k, t, 0) : k \in 1..3, t \in texts} :
            Len(n) > min_detected_length}

conflict_threshold == 60

\* fuzz.ratio(a, b) < percent
RatioBelow(a, b, percent) ==
    IF Len(a) + Len(b) = 0 THEN 100 < percent
    ELSE 200 * Lcs(a, b) < percent * (Len(a) + Len(b))

conflicting_names(presenter_name, videos) ==
    {d \in detected_names(videos) :
        RatioBelow(Lower(Chars(presenter_name)), Lower(d), conflict_threshold)}

\* the severity of name_in_videos for matches out of total
match_rate_severity(matches, total) ==
    IF 2 * matches < total THEN CRITICAL
    ELSE IF 5 * matches < 4 * total THEN WARNING ELSE PASS

presenter_first_checks(presenter_name, videos) ==
    << ValidationCheck("presenter_exists",
           NameGiven(presenter_name) /\ Len(Strip(Chars(presenter_name))) > 0, CRITICAL,
           IF ~NameGiven(presenter_name) THEN "No presenter name provided" ELSE None, None),
       ValidationCheck("not_generic", ~is_generic(presenter_name), CRITICAL,
           IF is_generic(presenter_name) THEN "Presenter name is generic placeholder" ELSE None,
           None),
       ValidationCheck("minimum_videos",
           Len(successful(videos)) >= min_successful_videos, CRITICAL,
           "Need at least 2 successful videos for profile",
           [successful_count |-> Len(successful(videos)), total_count |-> Len(videos)]) >>

presenter_checks(presenter_name, videos, conflicts) ==
    LET total == Len(successful(videos))
        matches == Len(SelectSeq(successful(videos),
                                 LAMBDA v : name_in_video(presenter_name, v)))
    IN  presenter_first_checks(presenter_name, videos)
        \o << ValidationCheck("name_in_videos", 2 * matches >= total,
                  match_rate_severity(matches, total),
                  IF 2 * matches < total THEN "Presenter name found in too few videos"
                  ELSE IF 5 * matches < 4 * total
                       THEN "Presenter name only found in some videos. Verify identity."
                       ELSE None,
                  [matches |-> matches, total |-> total, match_rate |-> <<matches, total>>]) >>
        \o Opt(Len(conflicts) > 0,
               ValidationCheck("no_conflicting_names", FALSE, CRITICAL,
                   "Detected conflicting presenter names",
                   [conflicts |-> conflicts, expected |-> presenter_name]))

validate_presenter(presenter_name, videos, conflicts) ==
    IF Len(successful(videos)) = 0
    THEN ValidationResult(CRITICAL, presenter_first_checks(presenter_name, videos))
    ELSE LET checks == presenter_checks(presenter_name, videos, conflicts)
         IN  ValidationResult(DetermineStatus(checks), checks)

MaxVideos == 2
PresenterNames ==
    {None, "", " ", "Presenter", "Speaker", "User", "Person", "Name", "Jane Doe"}
PresenterVideos ==
    {Video(FALSE, "v0", "Keynote", "", ""),
     Video(TRUE, "v1", "Talk by Jane Doe", "", ""),
     Video(TRUE, "v2", "Keynote", "with John Smith", ""),
     Video(TRUE, "v3", "Keynote", "", "jane here"),
     Video(TRUE, "v4", "Keynote", "", ""),
     Video(TRUE, "v5", "Keynote", "speaker: Mary Major", ""),
     Video(TRUE, "v6", "Name", "", "")}
VideoLists == SeqsOf(PresenterVideos, 0, MaxVideos)

(***************************************************************************)
(* validate_biography(biography_data)                                      *)
(*   biography_data: [full_name, biography, location, current_role,        *)
(*   github_username]; a field is a string, or None when the               *)
(*   key is absent; biography is [text, length], the text followed by      *)
(*   full stops up to the length, and its text is None when the key is     *)
(*   absent                                                                *)
(***************************************************************************)
\* the str a biography value stands for
Padded(b) == Chars(b.text) \o [i \in 1..(b.length - Len(Chars(b.text))) |-> "."]

\* biography_data.get("biography", "")
biography_of(biography_data) ==
    IF biography_data.biography.text = None THEN <<>> ELSE Padded(biography_data.biography)

\* biography_data.get("full_name", "")
full_name_of(biography_data) ==
    IF biography_data.full_name = None THEN <<>> ELSE Chars(biography_data.full_name)

\* not biography_data.get(f)
FieldMissing(biography_data, f) ==
    IF f = "biography" THEN Len(biography_of(biography_data)) = 0
    ELSE biography_data[f] = None \/ Len(Chars(biography_data[f])) = 0

required_fields == <<"full_name", "biography">>
optional_fields == <<"location", "current_role", "github_username">>

\* $ at offset i: the end of the string, or just before a final newline
AtEnd(t, i) == i = Len(t) \/ (i = Len(t) - 1 /\ t[Len(t)] = "\n")

\* a word of alternatives matches at offset i: the ends of the matches
AlternativeEnds(alternatives, t, i) ==
    {i + Len(Chars(w)) : w \in {a \in alternatives : MatchesAt(Chars(a), t, i)}}

\* the five placeholder_patterns, searched in full_name.lower():
\*   ^(first|last|full)\s*name$    ^name\s*(here|tbd)?$    ^(presenter|speaker|user)$
\*   lorem ipsum                   todo|tbd|n/a
is_placeholder(name) ==
    \/ \E e \in AlternativeEnds({"first", "last", "full"}, name, 0) :
           \E k \in e..SpaceRunEnd(name, e) :
               MatchesAt(Chars("name"), name, k) /\ AtEnd(name, k + 4)
    \/ /\ MatchesAt(Chars("name"), name, 0)
       /\ \E k \in 4..SpaceRunEnd(name, 4) :
              \/ AtEnd(name, k)
              \/ \E e \in AlternativeEnds({"here", "tbd"}, name, k) : AtEnd(name, e)
    \/ \E e \in AlternativeEnds({"presenter", "speaker", "user"}, name, 0) : AtEnd(name, e)
    \/ IsSubstring(Chars("lorem ipsum"), name)
    \/ \E w \in {"todo", "tbd", "n/a"} : IsSubstring(Chars(w), name)

bio_placeholder_patterns ==
    <<"lorem ipsum", "placeholder", "todo", "tbd", "fill in", "add bio here">>

\* any(pattern in text for pattern in patterns)
has_placeholder(patterns, text) ==
    \E i \in 1..Len(patterns) : IsSubstring(Chars(patterns[i]), text)

min_biography_length == 100
recommended_biography_length == 300

biography_checks(biography_data) ==
    LET missing_fields == SelectSeq(required_fields, LAMBDA f : FieldMissing(biography_data, f))
        full_name == full_name_of(biography_data)
        placeholder == is_placeholder(Lower(full_name))
        biography == biography_of(biography_data)
        bio_length == Len(biography)
        placeholder_bio == has_placeholder(bio_placeholder_patterns, Lower(biography))
        missing_optional == SelectSeq(optional_fields, LAMBDA f : FieldMissing(biography_data, f))
    IN  << ValidationCheck("required_fields", Len(missing_fields) = 0, CRITICAL,
               IF Len(missing_fields) > 0 THEN "Missing required biography fields" ELSE None,
               [missing_fields |-> missing_fields]),
           ValidationCheck("no_placeholder_name", ~placeholder /\ Len(full_name) > 0, CRITICAL,
               IF placeholder \/ Len(full_name) = 0
               THEN "Name appears to be placeholder" ELSE None,
               None),
           ValidationCheck("minimum_biography_length",
               bio_length >= min_biography_length, CRITICAL,
               IF bio_length < min_biography_length THEN "Biography too short" ELSE None,
               [length |-> bio_length, minimum |-> min_biography_length]),
           ValidationCheck("no_placeholder_bio", ~placeholder_bio, CRITICAL,
               IF placeholder_bio THEN "Biography contains placeholder text" ELSE None,
               None) >>
        \o Opt(min_biography_length <= bio_length /\ bio_length < recommended_biography_length,
               ValidationCheck("biography_quality", FALSE, WARNING,
                   "Biography is short. Recommend >=300 chars for quality profile.",
                   [length |-> bio_length, recommended |-> recommended_biography_length]))
        \o Opt(Len(missing_optional) > 0,
               ValidationCheck("optional_fields", FALSE, WARNING,
                   "Missing optional fields that improve profile quality",
                   [missing_optional |-> missing_optional]))

\* the validation without Check 5, the warning for a short but acceptable biography
validate_biography_without_quality(biography_data) ==
    LET checks == SelectSeq(biography_checks(biography_data),
                            LAMBDA c : c.name # "biography_quality")
    IN  ValidationResult(DetermineStatus(checks), checks)

validate_biography(biography_data) ==
    LET checks == biography_checks(biography_data)
    IN  ValidationResult(DetermineStatus(checks), checks)

FullNames == {None, "", "Jane Doe", "Full Name", "name here", "Todor Ivanov"}
BiographyTexts == {"Engineer at Acme", "Bio TBD"}
BiographyLengths == Near(min_biography_length) \cup Near(recommended_biography_length)
Biographies ==
    {[text |-> None, length |-> 0], [text |-> "", length |-> 0]} \cup
    {[text |-> w, length |-> l] : w \in BiographyTexts, l \in BiographyLengths}
\* the optional fields are present together with the ones before them
OptionalValues ==
    {<<None, None, None>>, <<"Berlin", None, None>>, <<"Berlin", "", None>>,
     <<"Berlin", "Engineer", "janedoe">>}
BiographyData ==
    {[full_name |-> n, biography |-> b, location |-> o[1], current_role |-> o[2],
      github_username |-> o[3]] : n \in FullNames, b \in Biographies, o \in OptionalValues}

(***************************************************************************)
(* validate_profile_update(existing_profile, new_videos_data)              *)
(*   existing_profile: [name, video_ids_processed, expertise_areas]        *)
(*   new_videos_data:  the sequence new_videos_data["videos"]              *)
(*   duplicates, existing_areas: the two sets in the order each is         *)
(*                     iterated                                            *)
(***************************************************************************)
\* existing_video_ids & new_video_ids
duplicate_ids(existing_profile, videos) ==
    Range(existing_profile.video_ids_processed)
        \cap {v.video_id : v \in Range(successful(videos))}

\* {area.get("area") for area in existing_profile.get("expertise_areas", [])}
existing_areas_of(existing_profile) == Range(existing_profile.expertise_areas)

profile_update_checks(existing_profile, videos, duplicates, existing_areas) ==
    LET new_videos == successful(videos)
        total == Len(new_videos)
        name_lower == Lower(Chars(existing_profile.name))
        name_matches == Len(SelectSeq(new_videos, LAMBDA v : in_video(name_lower, v)))
    IN  << ValidationCheck("has_new_videos", total >= 1, CRITICAL,
               "No successful new videos to add", [new_video_count |-> total]),
           ValidationCheck("name_consistency", 10 * name_matches >= 3 * total,
               IF name_matches = 0 THEN CRITICAL ELSE WARNING,
               IF name_matches = 0 THEN "Presenter name not found in any new videos. Wrong person?"
               ELSE IF 2 * name_matches < total
                    THEN "Presenter name only found in some new videos. Verify identity."
                    ELSE None,
               [matches |-> name_matches, total |-> total,
                match_rate |-> <<name_matches, total>>]) >>
        \o Opt(Len(duplicates) > 0,
               ValidationCheck("no_duplicates", FALSE, WARNING,
                   "Found video(s) already in profile",
                   [duplicate_count |-> Len(duplicates), duplicates |-> duplicates]))
        \o Opt(Len(existing_areas) > 0,
               ValidationCheck("expertise_consistency", TRUE, INFO,
                   "Existing expertise areas. Verify new videos are consistent.",
                   [existing_areas |-> existing_areas]))

validate_profile_update(existing_profile, videos, duplicates, existing_areas) ==
    IF Len(successful(videos)) = 0
    THEN ValidationResult(CRITICAL,
             <<ValidationCheck("has_new_videos", FALSE, CRITICAL,
                   "No successful new videos to add", [new_video_count |-> 0])>>)
    ELSE LET checks == profile_update_checks(existing_profile, videos, duplicates, existing_areas)
         IN  ValidationResult(DetermineStatus(checks), checks)

MaxNewVideos == 4
ExistingProfiles ==
    {[name |-> n, video_ids_processed |-> ids, expertise_areas |-> areas] :
        n \in {"Jane Doe", ""},
        ids \in {<<>>, <<"v1", "v2">>},
        areas \in {<<>>, <<"Kubernetes", "Observability">>}}
NewVideos ==
    {Video(FALSE, "v0", "Keynote", "", ""),
     Video(TRUE, "v1", "Talk by Jane Doe", "", ""),
     Video(TRUE, "v2", "Keynote", "", "")}
NewVideoLists == SeqsOf(NewVideos, 0, MaxNewVideos)

(***************************************************************************)
(* validate_presenter_profile(profile_data, threshold)                     *)
(*   profile_data: [overview, expertise, key_themes] strings               *)
(*   or None when absent, [talk_highlights, stats_table] whether the value *)
(*   is truthy, and the lengths of biography, talk_summaries,              *)
(*   expertise_areas and cncf_projects                                     *)
(*   threshold: hundredths                                                 *)
(*   The scores are in units of 1/2500 (0.2 * 1/5 * 1/100): for the inputs *)
(*   drawn here the float sums compare with the thresholds as the exact    *)
(*   sums do.                                                              *)
(***************************************************************************)
profile_required_sections ==
    <<"overview", "expertise", "talk_highlights", "key_themes", "stats_table">>

\* bool(profile_data.get(s))
SectionPresent(profile_data, s) ==
    IF s \in {"talk_highlights", "stats_table"} THEN profile_data[s]
    ELSE profile_data[s] # None /\ Len(Chars(profile_data[s])) > 0

\* str(profile_data.get(s, ""))
section_text(profile_data, s) == IF profile_data[s] = None THEN <<>> ELSE Chars(profile_data[s])

profile_placeholder_patterns == <<"lorem ipsum", "placeholder", "todo", "tbd", "fill in">>

full_bio_length == 500
full_count == 5
score_unit == 2500
marginal_score == 70

Min(a, b) == IF a <= b THEN a ELSE b

\* sum(w * s for w, s in zip(weights, scores)), in units of 1/2500
overall_score(present_sections, bio_length, talk_count, expertise_count, has_placeholders) ==
    100 * present_sections
    + Min(bio_length, full_bio_length)
    + 100 * Min(talk_count, full_count)
    + 100 * Min(expertise_count, full_count)
    + (IF has_placeholders THEN 0 ELSE 500)

\* score < hundredths / 100
ScoreBelow(score, hundredths) == score < 25 * hundredths

presenter_profile_checks(profile_data, threshold) ==
    LET present_sections ==
            Len(SelectSeq(profile_required_sections, LAMBDA s : SectionPresent(profile_data, s)))
        bio_length == profile_data.biography
        talk_count == profile_data.talk_summaries
        expertise_count == profile_data.expertise_areas + profile_data.cncf_projects
        combined_content ==
            Lower(Join(<<section_text(profile_data, "overview"),
                         section_text(profile_data, "expertise"),
                         section_text(profile_data, "key_themes")>>, <<" ">>))
        has_placeholders == has_placeholder(profile_placeholder_patterns, combined_content)
        score == overall_score(present_sections, bio_length, talk_count, expertise_count,
                               has_placeholders)
    IN  << ValidationCheck("structure_completeness", present_sections >= 4,
               IF present_sections < 3 THEN CRITICAL ELSE WARNING,
               IF present_sections < 4 THEN "Missing required sections" ELSE None,
               [score |-> <<present_sections, 5>>, present |-> present_sections, required |-> 5]),
           ValidationCheck("biography_depth", bio_length >= 300,
               IF bio_length < 100 THEN CRITICAL ELSE WARNING,
               IF bio_length < 300 THEN "Biography too short" ELSE None,
               [length |-> bio_length, score |-> <<Min(bio_length, 500), 500>>]),
           ValidationCheck("talk_coverage", talk_count >= 2,
               IF talk_count < 2 THEN CRITICAL ELSE WARNING,
               IF talk_count < 2 THEN "Too few talks analyzed" ELSE None,
               [count |-> talk_count, score |-> <<Min(talk_count, 5), 5>>]),
           ValidationCheck("expertise_identification", profile_data.cncf_projects >= 1,
               IF profile_data.cncf_projects = 0 THEN CRITICAL ELSE WARNING,
               IF profile_data.cncf_projects = 0 THEN "No CNCF projects identified"
               ELSE IF expertise_count < 3 THEN "Limited expertise data" ELSE None,
               [expertise_count |-> profile_data.expertise_areas,
                project_count |-> profile_data.cncf_projects,
                score |-> <<Min(expertise_count, 5), 5>>]),
           ValidationCheck("factual_consistency", ~has_placeholders, CRITICAL,
               IF has_placeholders THEN "Profile contains placeholder text" ELSE None,
               [score |-> IF has_placeholders THEN 0 ELSE 1]),
           ValidationCheck("overall_quality", ~ScoreBelow(score, threshold),
               IF ScoreBelow(score, threshold) THEN CRITICAL
               ELSE IF ScoreBelow(score, marginal_score) THEN WARNING ELSE PASS,
               IF ScoreBelow(score, threshold) THEN "Profile quality score below threshold"
               ELSE IF ScoreBelow(score, marginal_score)
                    THEN "Profile quality score is marginal. Recommend improvements."
                    ELSE None,
               [score |-> <<score, score_unit>>, threshold |-> threshold]) >>

validate_presenter_profile(profile_data, threshold) ==
    LET checks == presenter_profile_checks(profile_data, threshold)
    IN  ValidationResult(DetermineStatus(checks), checks)

default_threshold == 60
Thresholds == {default_threshold, 80}
SectionTexts == {None, "Leads platform work", "TODO later"}
ProfileData ==
    {[overview |-> o, expertise |-> e, key_themes |-> e, talk_highlights |-> h,
      stats_table |-> s, biography |-> b, talk_summaries |-> t,
      expertise_areas |-> a, cncf_projects |-> c] :
        o \in SectionTexts, e \in {None, "Kubernetes"}, h \in BOOLEAN, s \in BOOLEAN,
        b \in {99, 100, 299, 300, 500}, t \in {1, 2, 5}, a \in {0, 2}, c \in {0, 1, 3}}

(***************************************************************************)
(* fetch_multi_video_data(urls)                                            *)
(*   a URL is what the outside world holds for it: [url, video_id, valid,  *)
(*   fetched, length, words, count]; valid says that one of the three      *)
(*   patterns of extract_video_id matches, fetched that fetch_transcript   *)
(*   returned segments, count of them, whose joined text has the length    *)
(*   and the word count                                                    *)
(***************************************************************************)
\* dict.get(key), None by default
Get(d, key) == IF key \in DOMAIN d THEN d[key] ELSE None

\* ValidationResult.to_dict(): the status under "status", the checks under "checks"
to_dict(r) == [status |-> r.status, checks |-> r.checks]

\* extract_video_id(url) raises ValueError when no pattern matches
extract_video_id_raises(u) == IF u.valid THEN None ELSE "ValueError"

\* fetch_video_data(url): the metadata with the transcript and its validation
fetch_video_data(u) ==
    LET has_segments == u.fetched /\ u.count > 0
        transcript == IF has_segments
                      THEN [is_none |-> FALSE, length |-> u.length, words |-> u.words]
                      ELSE [is_none |-> FALSE, length |-> 0, words |-> 0]
        transcript_segments == [is_none |-> FALSE, count |-> IF has_segments THEN u.count ELSE 0]
    IN  [video_id |-> u.video_id, url |-> u.url, transcript |-> transcript,
         transcript_segments |-> transcript_segments,
         validation |-> to_dict(validate_transcript(transcript, transcript_segments))]

\* the record of one iteration of the loop
video_record(u) ==
    IF extract_video_id_raises(u) # None
    THEN [video_id |-> u.url, url |-> u.url, success |-> FALSE,
          error |-> extract_video_id_raises(u),
          transcript |-> [is_none |-> FALSE, length |-> 0, words |-> 0],
          transcript_segments |-> [is_none |-> FALSE, count |-> 0]]
    ELSE LET video_data == fetch_video_data(u)
             validation == Get(video_data, "validation")
             critical == Get(validation, "severity") = CRITICAL
         IN  IF critical
             THEN video_data @@ [success |-> FALSE, error |-> "Critical validation failure"]
             ELSE video_data @@ [success |-> TRUE]

\* a loop that gives up at the first video that failed
RECURSIVE process_videos_until_failure(_, _, _)
process_videos_until_failure(urls, i, acc) ==
    IF i > Len(urls) \/ acc.failed > 0 THEN acc
    ELSE LET video == video_record(urls[i])
         IN  process_videos_until_failure(urls, i + 1,
                 [videos |-> Append(acc.videos, video),
                  succeeded |-> acc.succeeded + (IF video.success THEN 1 ELSE 0),
                  failed |-> acc.failed + (IF video.success THEN 0 ELSE 1)])

\* the loop over the URLs from position i: videos, succeeded and failed so far
RECURSIVE process_videos(_, _, _)
process_videos(urls, i, acc) ==
    IF i > Len(urls) THEN acc
    ELSE LET video == video_record(urls[i])
         IN  process_videos(urls, i + 1,
                 [videos |-> Append(acc.videos, video),
                  succeeded |-> acc.succeeded + (IF video.success THEN 1 ELSE 0),
                  failed |-> acc.failed + (IF video.success THEN 0 ELSE 1)])

\* success_rate is the pair <<succeeded, total>>, and <<0, 1>> for no URL
fetch_multi_video_data(urls) ==
    LET done == process_videos(urls, 1, [videos |-> <<>>, succeeded |-> 0, failed |-> 0])
    IN  [videos |-> done.videos,
         stats |-> [total |-> Len(urls), succeeded |-> done.succeeded, failed |-> done.failed,
                    success_rate |-> IF Len(urls) > 0 THEN <<done.succeeded, Len(urls)>>
                                     ELSE <<0, 1>>]]

MaxUrls == 3
Urls ==
    {[url |-> "not a url", video_id |-> "", valid |-> FALSE, fetched |-> FALSE,
      length |-> 0, words |-> 0, count |-> 0],
     [url |-> "https://youtu.be/aaaaaaaaaaa", video_id |-> "aaaaaaaaaaa", valid |-> TRUE,
      fetched |-> FALSE, length |-> 0, words |-> 0, count |-> 0],
     [url |-> "https://youtu.be/bbbbbbbbbbb", video_id |-> "bbbbbbbbbbb", valid |-> TRUE,
      fetched |-> TRUE, length |-> 999, words |-> 150, count |-> 60],
     [url |-> "https://youtu.be/ccccccccccc", video_id |-> "ccccccccccc", valid |-> TRUE,
      fetched |-> TRUE, length |-> 4999, words |-> 800, count |-> 60],
     [url |-> "https://youtu.be/ddddddddddd", video_id |-> "ddddddddddd", valid |-> TRUE,
      fetched |-> TRUE, length |-> 6000, words |-> 900, count |-> 120]}
UrlLists == SeqsOf(Urls, 0, MaxUrls)

(***************************************************************************)
(* The validate-* commands of the CLI                                      *)
(***************************************************************************)
\* the names "from casestudypilot.validation import ..." binds in __main__; the
\* imports of the four presenter validators are TODO comments
bound_names ==
    {"validate_transcript_fn", "validate_company_name_fn", "validate_analysis_fn",
     "validate_metrics_fn", "validate_company_consistency_fn"}

\* evaluating a global name of __main__: the exception it raises, or None
name_lookup(name) == IF name \in bound_names THEN None ELSE "NameError"

\* the closing if / elif / else of every validate-* command
exit_status(r) == IF is_critical(r) THEN 2 ELSE IF has_warnings(r) THEN 1 ELSE 0

\* "except Exception" of every validate-* command: sys.exit(2)
error_exit == 2

\* verification_data.get("matched_name", verification_data.get("query_name", "Unknown"))
expected_company_of(verification_data) ==
    IF verification_data.matched_name # None THEN verification_data.matched_name
    ELSE IF verification_data.query_name # None THEN verification_data.query_name
    ELSE "Unknown"

\* the company verification files: an absent key is None
VerificationData ==
    {[matched_name |-> m, query_name |-> "Intuit"] : m \in ExpectedCompanies} \cup
    {[matched_name |-> None, query_name |-> "Uber"], [matched_name |-> None, query_name |-> None]}

(***************************************************************************)
(* The validate-all command                                                *)
(*   video_data:   [transcript, segments, text]; the transcript by its     *)
(*                 length and word count for validate_transcript, and text,*)
(*                 the words of it that the metric match can hit (None for *)
(*                 a transcript that is null in the file)                  *)
(*   unreadable:   the first of the four files that does not load, or ""   *)
(*   all_results:  the dict in insertion order, a sequence of [key, value] *)
(***************************************************************************)
validate_all_steps == <<"transcript", "analysis", "metrics", "consistency">>

\* the file each step opens
step_file ==
    [transcript |-> "video_data", analysis |-> "analysis", metrics |-> "sections",
     consistency |-> "verification"]

\* "metric not in original_transcript" with a transcript that is None
metrics_raises(sections, text) ==
    IF text = None /\ Len(found_metrics(all_generated_text(sections))) > 0
    THEN "TypeError" ELSE None

\* the exception a step raises, or None
step_raises(key, video_data, sections, unreadable) ==
    IF unreadable = step_file[key] THEN "OSError"
    ELSE IF key = "metrics" THEN metrics_raises(sections, video_data.text)
    ELSE None

\* the result of one step
step_result(key, video_data, analysis, sections, verification) ==
    CASE key = "transcript" ->
             validate_transcript(video_data.transcript, video_data.segments)
      [] key = "analysis" -> validate_analysis(analysis)
      [] key = "metrics" -> validate_metrics(sections, video_data.text, analysis)
      [] key = "consistency" ->
             validate_company_consistency(expected_company_of(verification), sections,
                                          video_data)

\* the number of steps that complete before "except Exception" ends the command
completed_steps(video_data, sections, unreadable) ==
    LET raising == {i \in 1..Len(validate_all_steps) :
                       step_raises(validate_all_steps[i], video_data, sections,
                                   unreadable) # None}
    IN  IF raising = {} THEN Len(validate_all_steps) ELSE Least(raising) - 1

\* the results of the completed steps, in the order the command computes them
validation_results(video_data, analysis, sections, verification, unreadable) ==
    [i \in 1..completed_steps(video_data, sections, unreadable) |->
        [key |-> validate_all_steps[i],
         value |-> step_result(validate_all_steps[i], video_data, analysis, sections,
                               verification)]]

\* one "if result.is_critical(): ... elif result.has_warnings(): ..." of the command;
\* the metrics step has no is_critical test
note_result(flags, r, critical_counts) ==
    IF critical_counts /\ is_critical(r)
    THEN [flags EXCEPT !.has_critical = TRUE]
    ELSE IF has_warnings(r) THEN [flags EXCEPT !.has_warnings = TRUE]
    ELSE flags

\* has_critical and has_warnings after the steps
RECURSIVE validate_all_flags(_, _)
validate_all_flags(results, flags) ==
    IF Len(results) = 0 THEN flags
    ELSE validate_all_flags(Tail(results),
             note_result(flags, Head(results).value, Head(results).key # "metrics"))

\* the closing if / elif / else of validate-all
validate_all_exit(flags) ==
    IF flags.has_critical THEN 2 ELSE IF flags.has_warnings THEN 1 ELSE 0

\* a report that ends with the first CRITICAL result
RECURSIVE all_results_until_critical(_)
all_results_until_critical(results) ==
    IF Len(results) = 0 THEN <<>>
    ELSE <<[key |-> Head(results).key, value |-> to_dict(Head(results).value)]>>
         \o (IF is_critical(Head(results).value) THEN <<>>
             ELSE all_results_until_critical(Tail(results)))

\* all_results[key] = result.to_dict()
all_results_of(results) ==
    [i \in 1..Len(results) |-> [key |-> results[i].key, value |-> to_dict(results[i].value)]]

VideoData(l, t) ==
    [transcript |-> [is_none |-> FALSE, length |-> l, words |-> IF l = 0 THEN 0 ELSE 800],
     segments |-> [is_none |-> FALSE, count |-> IF l = 0 THEN 0 ELSE min_segments],
     text |-> t]
AllVideoData ==
    {VideoData(p[1], p[2]) :
        p \in {q \in {0, short_length - 1, short_length} \X {"", "50%"} :
                  q[1] = 0 => q[2] = ""}} \cup
    {[transcript |-> [is_none |-> TRUE, length |-> 0, words |-> 0],
      segments |-> [is_none |-> FALSE, count |-> 0], text |-> None]}
AllAnalyses ==
    {[keys |-> Range(required_keys), project_count |-> p, metric_count |-> MaxMetrics,
      sections |-> [k \in Range(required_sections) |-> min_chars]] : p \in 0..MaxProjects}
AllSections ==
    {<<>>, <<"Intuit">>, <<"Spotify">>, <<"50%">>, <<"Intuit", "50%">>, <<"Spotify", "50%">>}
Unreadable == {""} \cup Range(step_file)

(***************************************************************************)
(* validate_case_study(file_path, threshold) and the validate command      *)
(*   file: [kind, score, warnings]; kind "missing" or "file", score the    *)
(*   quality score of the content in hundredths (calculate_quality_score   *)
(*   rounds to two places), warnings the messages of generate_warnings     *)
(***************************************************************************)
critical_score == 60
warning_score == 75
failure_exit == 1

\* what the class ValidationResult defines
ValidationResult_methods == {"is_critical", "has_warnings", "get_failed_checks", "to_dict"}

\* evaluating ValidationResult.name: the exception it raises, or None
getattr_raises(name) == IF name \in ValidationResult_methods THEN None ELSE "AttributeError"

\* the checks validate_case_study builds before it aggregates them
case_study_checks(quality_score, warnings) ==
    << ValidationCheck("overall_score",
           quality_score >= warning_score,
           IF quality_score < critical_score THEN CRITICAL
           ELSE IF quality_score < warning_score THEN WARNING
           ELSE PASS,
           "Overall quality score", [score |-> quality_score]) >>
    \o [i \in 1..Len(warnings) |->
            ValidationCheck("content_issue", FALSE, WARNING, warnings[i], None)]

\* read_case_study raises for a missing file; the last line looks up
\* ValidationResult.from_checks
validate_case_study_raises(file) ==
    IF file.kind = "missing" THEN "FileNotFoundError" ELSE getattr_raises("from_checks")

\* the try block of the validate command: validate_case_study, then json.dump of
\* its result, a ValidationResult, which json cannot serialise
validate_command_raises(file) ==
    IF validate_case_study_raises(file) # None THEN validate_case_study_raises(file)
    ELSE "TypeError"

MaxWarnings == 2
QualityScores == {0, 100} \cup Near(critical_score) \cup Near(warning_score)
WarningMessages == {"Missing sections", "Formatting issues"}
QualityFiles ==
    {[kind |-> "missing", score |-> 0, warnings |-> <<>>]} \cup
    {[kind |-> "file", score |-> q, warnings |-> w] :
        q \in QualityScores, w \in SeqsOf(WarningMessages, 0, MaxWarnings)}

(***************************************************************************)
(* The state machine                                                       *)
(***************************************************************************)
NoResult == ValidationResult("NONE", <<>>)

Init ==
    /\ fn = "idle"
    /\ args = <<>>
    /\ result = NoResult
    /\ raised = None
    /\ exit_code = NoExit

Idle == fn = "idle"

\* a library call: the validator's result is handed to the caller
Call(name, a, r) ==
    /\ fn' = name
    /\ args' = a
    /\ result' = r
    /\ raised' = None
    /\ exit_code' = NoExit

\* a library call that raises: the exception reaches the caller
CallRaises(name, a, exc) ==
    /\ fn' = name
    /\ args' = a
    /\ result' = NoResult
    /\ raised' = exc
    /\ exit_code' = NoExit

\* a validate-* command whose input files load: the body of its try block calls
\* callee and exits by the result; any exception is caught and exits 2
Command(name, a, callee, r) ==
    /\ fn' = name
    /\ args' = a
    /\ result' = IF name_lookup(callee) = None THEN r ELSE NoResult
    /\ raised' = None
    /\ exit_code' = IF name_lookup(callee) = None THEN exit_status(r) ELSE error_exit

CallValidateTranscript ==
    /\ Idle
    /\ \E t \in Transcripts, s \in Segments :
           Call("validate_transcript", [transcript |-> t, segments |-> s],
                validate_transcript(t, s))

CallValidateCompanyName ==
    /\ Idle
    /\ \E n \in CompanyNames, c \in Confidences :
           Call("validate_company_name", [company_name |-> n, confidence |-> c],
                validate_company_name(n, "title", c))

CallValidateAnalysis ==
    /\ Idle
    /\ \E a \in Analyses :
           Call("validate_analysis", [analysis |-> a], validate_analysis(a))

CallValidateCompanyConsistency ==
    /\ Idle
    /\ \E e \in ExpectedCompanies, g \in ConsistencySections :
           Call("validate_company_consistency",
                [expected_company |-> e, generated_sections |-> g],
                validate_company_consistency(e, g, "video_data"))

CallValidateMetrics ==
    /\ Idle
    /\ \E g \in GeneratedSections, t \in OriginalTranscripts :
           Call("validate_metrics",
                [generated_sections |-> g, original_transcript |-> t],
                validate_metrics(g, t, "analysis"))

CallValidateCaseStudyFormat ==
    /\ Idle
    /\ \E f \in CaseStudyFiles :
           IF case_study_format_raises(f) # None
           THEN CallRaises("validate_case_study_format", [file |-> f],
                           case_study_format_raises(f))
           ELSE Call("validate_case_study_format", [file |-> f],
                     validate_case_study_format(f))

CallValidatePresenter ==
    /\ Idle
    /\ \E n \in PresenterNames, v \in VideoLists :
           IF presenter_raises(n, v) # None
           THEN CallRaises("validate_presenter", [presenter_name |-> n, videos |-> v],
                           presenter_raises(n, v))
           ELSE \E c \in Orderings(IF Len(successful(v)) = 0 THEN {}
                                   ELSE conflicting_names(n, v)) :
                    Call("validate_presenter",
                         [presenter_name |-> n, videos |-> v, conflicts |-> c],
                         validate_presenter(n, v, c))

CallValidateBiography ==
    /\ Idle
    /\ \E b \in BiographyData :
           Call("validate_biography", [biography_data |-> b], validate_biography(b))

CallValidateProfileUpdate ==
    /\ Idle
    /\ \E p \in ExistingProfiles, v \in NewVideoLists :
           \E d \in Orderings(duplicate_ids(p, v)), a \in Orderings(existing_areas_of(p)) :
               Call("validate_profile_update",
                    [existing_profile |-> p, videos |-> v, duplicates |-> d,
                     existing_areas |-> a],
                    validate_profile_update(p, v, d, a))

CallValidatePresenterProfile ==
    /\ Idle
    /\ \E p \in ProfileData, t \in Thresholds :
           Call("validate_presenter_profile", [profile_data |-> p, threshold |-> t],
                validate_presenter_profile(p, t))

CallFetchMultiVideoData ==
    /\ Idle
    /\ \E urls \in UrlLists :
           Call("fetch_multi_video_data", [urls |-> urls], fetch_multi_video_data(urls))

ValidateTranscriptCmd ==
    /\ Idle
    /\ \E t \in Transcripts, s \in Segments :
           Command("validate-transcript", [transcript |-> t, segments |-> s],
                   "validate_transcript_fn", validate_transcript(t, s))

\* company_name is a command-line argument, a str
ValidateCompanyCmd ==
    /\ Idle
    /\ \E n \in CompanyNames \ {None}, c \in Confidences :
           Command("validate-company", [company_name |-> n, confidence |-> c],
                   "validate_company_name_fn", validate_company_name(n, "title", c))

ValidateAnalysisCmd ==
    /\ Idle
    /\ \E a \in Analyses :
           Command("validate-analysis", [analysis |-> a],
                   "validate_analysis_fn", validate_analysis(a))

ValidateConsistencyCmd ==
    /\ Idle
    /\ \E v \in VerificationData, g \in ConsistencySections :
           Command("validate-consistency", [verification |-> v, generated_sections |-> g],
                   "validate_company_consistency_fn",
                   validate_company_consistency(expected_company_of(v), g, "video_data"))

\* presenter_name is a command-line argument, a str
ValidatePresenterCmd ==
    /\ Idle
    /\ \E n \in PresenterNames \ {None}, v \in VideoLists :
           \E c \in Orderings(IF Len(successful(v)) = 0 THEN {} ELSE conflicting_names(n, v)) :
               Command("validate-presenter",
                       [presenter_name |-> n, videos |-> v, conflicts |-> c],
                       "validate_presenter", validate_presenter(n, v, c))

ValidateBiographyCmd ==
    /\ Idle
    /\ \E b \in BiographyData :
           Command("validate-biography", [biography_data |-> b],
                   "validate_biography", validate_biography(b))

ValidateProfileUpdateCmd ==
    /\ Idle
    /\ \E p \in ExistingProfiles, v \in NewVideoLists :
           \E d \in Orderings(duplicate_ids(p, v)), a \in Orderings(existing_areas_of(p)) :
               Command("validate-profile-update",
                       [existing_profile |-> p, videos |-> v, duplicates |-> d,
                        existing_areas |-> a],
                       "validate_profile_update", validate_profile_update(p, v, d, a))

ValidatePresenterProfileCmd ==
    /\ Idle
    /\ \E p \in ProfileData, t \in Thresholds :
           Command("validate-presenter-profile", [profile_data |-> p, threshold |-> t],
                   "validate_presenter_profile", validate_presenter_profile(p, t))

\* validate-all: the steps run in order inside one try block; when they all
\* complete, all_results is printed and the exit code follows the two flags;
\* an exception is caught, nothing more is reported and the command exits 2
ValidateAllCmd ==
    /\ Idle
    /\ \E v \in AllVideoData, a \in AllAnalyses, g \in AllSections, c \in VerificationData,
          u \in Unreadable :
           LET results == validation_results(v, a, g, c, u)
               finished == Len(results) = Len(validate_all_steps)
           IN  /\ fn' = "validate-all"
               /\ args' = [video_data |-> v, analysis |-> a, sections |-> g,
                           verification |-> c, unreadable |-> u]
               /\ result' = [all_results |-> all_results_of(results), reported |-> finished]
               /\ raised' = None
               /\ exit_code' = IF finished
                               THEN validate_all_exit(
                                        validate_all_flags(results, [has_critical |-> FALSE,
                                                                     has_warnings |-> FALSE]))
                               ELSE error_exit

\* validate_case_study: every path through the function ends in an exception
CallValidateCaseStudy ==
    /\ Idle
    /\ \E f \in QualityFiles :
           CallRaises("validate_case_study", [file |-> f], validate_case_study_raises(f))

\* the validate command: "except Exception" prints the error and exits 1; with no
\* exception and a passing result no sys.exit is reached
ValidateCmd ==
    /\ Idle
    /\ \E f \in QualityFiles :
           /\ fn' = "validate"
           /\ args' = [file |-> f]
           /\ result' = NoResult
           /\ raised' = None
           /\ exit_code' = IF validate_command_raises(f) # None THEN failure_exit ELSE NoExit

\* the caller discards the result; a ValidationResult does not outlive its call
Return ==
    /\ ~Idle
    /\ fn' = "idle"
    /\ args' = <<>>
    /\ result' = NoResult
    /\ raised' = None
    /\ exit_code' = NoExit

NextValidators ==
    \/ CallValidateTranscript
    \/ CallValidateCompanyName
    \/ CallValidateAnalysis
    \/ CallValidateCompanyConsistency
    \/ CallValidateMetrics
    \/ CallValidateCaseStudyFormat
    \/ CallValidatePresenter
    \/ CallValidateBiography
    \/ CallValidateProfileUpdate
    \/ CallValidatePresenterProfile
    \/ Return

NextCommands ==
    \/ ValidateTranscriptCmd
    \/ ValidateCompanyCmd
    \/ ValidateAnalysisCmd
    \/ ValidateConsistencyCmd
    \/ ValidatePresenterCmd
    \/ ValidateBiographyCmd
    \/ ValidateProfileUpdateCmd
    \/ ValidatePresenterProfileCmd
    \/ Return

Next ==
    \/ NextValidators
    \/ NextCommands
    \/ CallFetchMultiVideoData
    \/ ValidateAllCmd
    \/ CallValidateCaseStudy
    \/ ValidateCmd

Spec == Init /\ [][Next]_vars

\* the caller restricted to the library, and to the CLI
SpecValidators == Init /\ [][NextValidators]_vars
SpecCommands == Init /\ [][NextCommands]_vars

\* the same caller restricted to one validator
NextTranscript == CallValidateTranscript \/ Return
SpecTranscript == Init /\ [][NextTranscript]_vars

NextCompanyName == CallValidateCompanyName \/ Return
SpecCompanyName == Init /\ [][NextCompanyName]_vars

NextAnalysis == CallValidateAnalysis \/ Return
SpecAnalysis == Init /\ [][NextAnalysis]_vars

NextMetrics == CallValidateMetrics \/ Return
SpecMetrics == Init /\ [][NextMetrics]_vars

NextConsistency == CallValidateCompanyConsistency \/ Return
SpecConsistency == Init /\ [][NextConsistency]_vars

NextCaseStudyFormat == CallValidateCaseStudyFormat \/ Return
SpecCaseStudyFormat == Init /\ [][NextCaseStudyFormat]_vars

NextPresenter == CallValidatePresenter \/ Return
SpecPresenter == Init /\ [][NextPresenter]_vars

NextBiography == CallValidateBiography \/ Return
SpecBiography == Init /\ [][NextBiography]_vars

NextProfileUpdate == CallValidateProfileUpdate \/ Return
SpecProfileUpdate == Init /\ [][NextProfileUpdate]_vars

NextPresenterProfile == CallValidatePresenterProfile \/ Return
SpecPresenterProfile == Init /\ [][NextPresenterProfile]_vars

NextCaseStudy == CallValidateCaseStudy \/ ValidateCmd \/ Return
SpecCaseStudy == Init /\ [][NextCaseStudy]_vars

NextValidateAll == ValidateAllCmd \/ Return
SpecValidateAll == Init /\ [][NextValidateAll]_vars

NextMultiVideo == CallFetchMultiVideoData \/ Return
SpecMultiVideo == Init /\ [][NextMultiVideo]_vars

(***************************************************************************)
(* Properties                                                              *)
(***************************************************************************)
HasCheck(r, name) == \E i \in 1..Len(r.checks) : r.checks[i].name = name

CheckNamed(r, name) == r.checks[CHOOSE i \in 1..Len(r.checks) : r.checks[i].name = name]

\* the result holds the check, failed, with the severity
Emitted(r, name, severity) ==
    /\ HasCheck(r, name)
    /\ \A i \in 1..Len(r.checks) :
           r.checks[i].name = name =>
               ~r.checks[i].passed /\ r.checks[i].severity = severity

\* the offsets at which w stands in t with no \w character on either side
DelimitedOccurrences(w, t) ==
    {i \in 0..(Len(t) - Len(w)) :
        /\ SubSeq(t, i + 1, i + Len(w)) = w
        /\ i = 0 \/ ~IsWordChar(t[i])
        /\ i + Len(w) = Len(t) \/ ~IsWordChar(t[i + Len(w) + 1])}

\* how often the sections mention the company as a word of its own
MentionCount(company, sections) ==
    Cardinality(DelimitedOccurrences(Lower(Chars(company)), Lower(Text(sections))))

OtherKnownCompanies(expected) ==
    {c \in Range(known_companies) : Lower(Chars(c)) # Lower(Chars(expected))}

HighestOtherCount(expected, sections) ==
    LET counts == {MentionCount(c, sections) : c \in OtherKnownCompanies(expected)}
    IN  CHOOSE m \in counts : \A n \in counts : m >= n

\* the companies a check's details list under other_companies
ListedCompanies(check) ==
    IF check.name \in {"company_mismatch", "other_companies_mentioned"}
    THEN {check.details.other_companies[i].company :
              i \in 1..Len(check.details.other_companies)}
    ELSE {}

\* some check of the list failed with the severity
FailedWith(checks, severity) ==
    \E i \in 1..Len(checks) : ~checks[i].passed /\ checks[i].severity = severity

\* the status the escalation rule gives a list of checks
Escalated(checks) ==
    IF FailedWith(checks, CRITICAL) THEN CRITICAL
    ELSE IF FailedWith(checks, WARNING) THEN WARNING
    ELSE PASS

Validators ==
    {"validate_transcript", "validate_company_name", "validate_analysis", "validate_metrics",
     "validate_case_study_format", "validate_company_consistency", "validate_presenter",
     "validate_biography", "validate_profile_update", "validate_presenter_profile"}

\* C1: whatever validator returned, early returns included, the status is CRITICAL
\* iff some returned check failed with severity CRITICAL, otherwise WARNING iff
\* some returned check failed with severity WARNING, otherwise PASS.
C1_EscalationInvariant ==
    (fn \in Validators /\ raised = None) => result.status = Escalated(result.checks)

\* validate_presenter returned early, without successful videos
C1_Witness ==
    /\ fn = "validate_presenter"
    /\ raised = None
    /\ Len(successful(args.videos)) = 0
    /\ Len(result.checks) = 3
    /\ result.status = CRITICAL
    /\ FailedWith(result.checks, CRITICAL)

Commands ==
    {"validate-transcript", "validate-company", "validate-analysis", "validate-consistency",
     "validate-presenter", "validate-biography", "validate-profile-update",
     "validate-presenter-profile"}

\* the exit code the three-level scheme gives a status
StatusExitCode(status) ==
    CASE status = PASS -> 0
      [] status = WARNING -> 1
      [] status = CRITICAL -> 2

\* the ValidationResult of the command's validator for the inputs the command loaded
LoadedInputsResult ==
    CASE fn = "validate-transcript" -> validate_transcript(args.transcript, args.segments)
      [] fn = "validate-company" ->
             validate_company_name(args.company_name, "title", args.confidence)
      [] fn = "validate-analysis" -> validate_analysis(args.analysis)
      [] fn = "validate-consistency" ->
             validate_company_consistency(expected_company_of(args.verification),
                                          args.generated_sections, "video_data")
      [] fn = "validate-presenter" ->
             validate_presenter(args.presenter_name, args.videos, args.conflicts)
      [] fn = "validate-biography" -> validate_biography(args.biography_data)
      [] fn = "validate-profile-update" ->
             validate_profile_update(args.existing_profile, args.videos, args.duplicates,
                                     args.existing_areas)
      [] fn = "validate-presenter-profile" ->
             validate_presenter_profile(args.profile_data, args.threshold)

\* C2: a validate-* command whose input files load exits 0 exactly when its
\* validator's status for those inputs is PASS, 1 exactly when it is WARNING and
\* 2 exactly when it is CRITICAL.
C2_ExitCodeMirrorsStatus ==
    fn \in Commands => exit_code = StatusExitCode(LoadedInputsResult.status)

\* C3: validate_company_consistency emits company_mismatch (failed, CRITICAL) iff
\* some other known company is mentioned and the highest count among the other
\* known companies is greater than the expected company's count; it emits
\* other_companies_mentioned (failed, WARNING) iff some other known company is
\* mentioned and that highest count is at most the expected company's count
\* (ties included); the two checks never appear together.
C3_MismatchIffOutnumbered ==
    fn = "validate_company_consistency" =>
        LET highest == HighestOtherCount(args.expected_company, args.generated_sections)
            own == MentionCount(args.expected_company, args.generated_sections)
        IN  /\ HasCheck(result, "company_mismatch") <=> (highest > 0 /\ highest > own)
            /\ HasCheck(result, "company_mismatch")
                   => Emitted(result, "company_mismatch", CRITICAL)
            /\ HasCheck(result, "other_companies_mentioned")
                   <=> (highest > 0 /\ highest <= own)
            /\ HasCheck(result, "other_companies_mentioned")
                   => Emitted(result, "other_companies_mentioned", WARNING)
            /\ ~(HasCheck(result, "company_mismatch")
                   /\ HasCheck(result, "other_companies_mentioned"))

\* a tie: another company is mentioned exactly as often as the expected one
C3_Witness ==
    /\ fn = "validate_company_consistency"
    /\ MentionCount(args.expected_company, args.generated_sections) = 1
    /\ HighestOtherCount(args.expected_company, args.generated_sections) = 1
    /\ Emitted(result, "other_companies_mentioned", WARNING)

\* C4: expected_company_mentioned passes iff the expected company name occurs in
\* the generated text as a case-insensitive word-boundary match; an occurrence
\* only inside a longer word makes the check fail CRITICAL.
C4_ExpectedMentionedIsWordMatch ==
    fn = "validate_company_consistency" =>
        /\ CheckNamed(result, "expected_company_mentioned").passed
               <=> MentionCount(args.expected_company, args.generated_sections) > 0
        /\ CheckNamed(result, "expected_company_mentioned").severity = CRITICAL

\* C5: a known company that occurs in the generated text only inside longer words
\* is not listed by company_mismatch or other_companies_mentioned, and when no
\* other known company stands as a word of its own neither check is emitted.
C5_OnlyWholeWordsCount ==
    fn = "validate_company_consistency" =>
        /\ \A c \in Range(known_companies) :
               MentionCount(c, args.generated_sections) = 0 =>
                   \A i \in 1..Len(result.checks) : c \notin ListedCompanies(result.checks[i])
        /\ (\A c \in OtherKnownCompanies(args.expected_company) :
                MentionCount(c, args.generated_sections) = 0)
               => /\ ~HasCheck(result, "company_mismatch")
                  /\ ~HasCheck(result, "other_companies_mentioned")

\* the text holds "uber" inside "Kubernetes" only, and the result holds one check
C5_Witness ==
    /\ fn = "validate_company_consistency"
    /\ args.expected_company = "Intuit"
    /\ IsSubstring(Chars("uber"), Lower(Text(args.generated_sections)))
    /\ MentionCount("Uber", args.generated_sections) = 0
    /\ Len(result.checks) = 1

\* C6: validate_transcript returns CRITICAL iff the transcript is empty or shorter
\* than 1000 characters or has fewer than 100 words or there are fewer than 50
\* segments; otherwise WARNING iff it is shorter than 5000 characters; otherwise
\* PASS.  Length 1000, 100 words and 50 segments pass their checks, and length
\* 5000 produces no warning.
C6_TranscriptStatus ==
    fn = "validate_transcript" =>
        LET length == IF args.transcript.is_none THEN 0 ELSE args.transcript.length
            words == IF args.transcript.is_none THEN 0 ELSE args.transcript.words
            segments == IF args.segments.is_none THEN 0 ELSE args.segments.count
            critical == length = 0 \/ length < 1000 \/ words < 100 \/ segments < 50
        IN  /\ result.status = IF critical THEN CRITICAL
                               ELSE IF length < 5000 THEN WARNING ELSE PASS
            /\ CheckNamed(result, "minimum_length").passed <=> length >= 1000
            /\ CheckNamed(result, "meaningful_content").passed <=> words >= 100
            /\ CheckNamed(result, "sufficient_segments").passed <=> segments >= 50
            /\ length >= 5000 => ~HasCheck(result, "short_transcript")

\* every threshold met exactly: the three checks pass and the status is WARNING
C6_Witness ==
    /\ fn = "validate_transcript"
    /\ args.transcript.length = 1000
    /\ args.transcript.words = 100
    /\ args.segments.count = 50
    /\ result.status = WARNING
    /\ \A i \in 1..4 : result.checks[i].passed

\* a name that passes company_exists, not_generic and minimum_length
OtherwiseValidName(name) ==
    /\ name # None
    /\ Strip(Chars(name)) # <<>>
    /\ Strip(Lower(Chars(name))) \notin {Chars(generic_names[i]) : i \in 1..Len(generic_names)}
    /\ Len(Chars(name)) >= 2

\* C7: for an otherwise valid company name validate_company_name returns CRITICAL
\* when confidence < 0.5, WARNING when 0.5 <= confidence < 0.7 and PASS when
\* confidence >= 0.7; the confidence_threshold check has severity CRITICAL,
\* WARNING or INFO respectively and is failed exactly when confidence < 0.7.
C7_GraduatedConfidence ==
    (fn = "validate_company_name" /\ OtherwiseValidName(args.company_name)) =>
        LET check == CheckNamed(result, "confidence_threshold")
        IN  /\ result.status = IF args.confidence < 50 THEN CRITICAL
                               ELSE IF args.confidence < 70 THEN WARNING ELSE PASS
            /\ check.severity = IF args.confidence < 50 THEN CRITICAL
                                ELSE IF args.confidence < 70 THEN WARNING ELSE INFO
            /\ ~check.passed <=> args.confidence < 70

\* a valid name at confidence 0.5: the lowest confidence that only warns
C7_Witness ==
    /\ fn = "validate_company_name"
    /\ OtherwiseValidName(args.company_name)
    /\ args.confidence = 50
    /\ result.status = WARNING
    /\ Emitted(result, "confidence_threshold", WARNING)

\* some metric of the generated text is neither in the transcript as written nor
\* close to one of its whitespace-delimited chunks
SomeMetricUnverified(generated_sections, original_transcript) ==
    LET found == found_metrics(Text(generated_sections))
        transcript == Chars(original_transcript)
        chunks == Split(transcript)
    IN  \E k \in 1..Len(found) :
            /\ ~IsSubstring(found[k], transcript)
            /\ \A i \in 1..Len(chunks) :
                   ~PartialRatioAbove(metric_normalized(found[k]), chunks[i], 85)

\* C8: validate_metrics never returns CRITICAL: it returns exactly one check,
\* metrics_in_transcript, failed with severity WARNING (status WARNING) iff some
\* extracted metric is neither an exact substring of the transcript nor
\* fuzzy-matched, and otherwise passed with severity INFO (status PASS).
C8_MetricsNeverCritical ==
    fn = "validate_metrics" =>
        /\ result.status # CRITICAL
        /\ Len(result.checks) = 1
        /\ result.checks[1].name = "metrics_in_transcript"
        /\ IF SomeMetricUnverified(args.generated_sections, args.original_transcript)
           THEN /\ ~result.checks[1].passed
                /\ result.checks[1].severity = WARNING
                /\ result.status = WARNING
           ELSE /\ result.checks[1].passed
                /\ result.checks[1].severity = INFO
                /\ result.status = PASS

\* two fabricated metrics: one failed WARNING check and status WARNING
C8_Witness ==
    /\ fn = "validate_metrics"
    /\ result.status = WARNING
    /\ Len(result.checks) = 1
    /\ ~result.checks[1].passed
    /\ Len(result.checks[1].details.fabricated_metrics) >= 2

\* the metrics the result lists as fabricated
ListedFabricated(r) ==
    IF r.checks[1].passed THEN {}
    ELSE Range(r.checks[1].details.fabricated_metrics)

\* the number of a metric as written (digits and grouping commas)
WrittenNumber(metric) == SelectSeq(metric, LAMBDA c : c \in Digits \cup {","})

\* the digits of a metric
DigitsOf(metric) == SelectSeq(metric, LAMBDA c : c \in Digits)

\* C9 as stated: every metric whose number stands in the transcript as a
\* whitespace-delimited chunk, its unit written differently, is accepted.
C9_NumberInTranscriptAccepted ==
    fn = "validate_metrics" =>
        LET found == found_metrics(Text(args.generated_sections))
            chunks == Range(Split(Chars(args.original_transcript)))
        IN  \A k \in 1..Len(found) :
                WrittenNumber(found[k]) \in chunks
                    => found[k] \notin ListedFabricated(result)

\* C9 as amended: every metric whose digits, grouping commas removed, are a
\* whitespace-delimited chunk of the transcript is accepted; with "50%" the only
\* metric and a transcript that holds "50 percent" the status is PASS.
C9_DigitChunkAccepted ==
    fn = "validate_metrics" =>
        LET found == found_metrics(Text(args.generated_sections))
            chunks == Range(Split(Chars(args.original_transcript)))
        IN  /\ \A k \in 1..Len(found) :
                   DigitsOf(found[k]) \in chunks
                       => found[k] \notin ListedFabricated(result)
            /\ (\A k \in 1..Len(found) : DigitsOf(found[k]) \in chunks)
                   => result.status = PASS /\ ListedFabricated(result) = {}

\* "50%" generated, "50 percent" in the transcript and "50%" not in it
C9_Witness ==
    /\ fn = "validate_metrics"
    /\ Chars("50%") \in Range(found_metrics(Text(args.generated_sections)))
    /\ args.original_transcript = "50 percent"
    /\ ~IsSubstring(Chars("50%"), Chars(args.original_transcript))
    /\ result.status = PASS
    /\ ListedFabricated(result) = {}

\* C10: validate_analysis returns PASS iff the three top-level keys are present,
\* there are at least 2 projects, the four sections are present with at least 100
\* characters each and key_metrics is non-empty; WARNING iff no CRITICAL check
\* fails and there is exactly 1 project or key_metrics is empty; CRITICAL
\* otherwise.
C10_AnalysisStatus ==
    fn = "validate_analysis" =>
        LET a == args.analysis
            keys_present == a.keys = {"cncf_projects", "key_metrics", "sections"}
            sections_long ==
                \A s \in {"background", "challenge", "solution", "impact"} :
                    s \in DOMAIN a.sections /\ a.sections[s] >= 100
            no_critical_fails ==
                \A i \in 1..Len(result.checks) :
                    ~result.checks[i].passed => result.checks[i].severity # CRITICAL
            passes == /\ keys_present
                      /\ a.project_count >= 2
                      /\ sections_long
                      /\ a.metric_count >= 1
            warns == no_critical_fails /\ (a.project_count = 1 \/ a.metric_count = 0)
        IN  /\ result.status = PASS <=> passes
            /\ result.status = WARNING <=> warns
            /\ result.status = CRITICAL <=> (~passes /\ ~warns)
            /\ no_critical_fails <=> (keys_present /\ a.project_count >= 1 /\ sections_long)

\* one project and a section below 100 characters: the warning comes first in the
\* checks and the status is CRITICAL
C10_Witness ==
    /\ fn = "validate_analysis"
    /\ args.analysis.project_count = 1
    /\ args.analysis.keys = {"cncf_projects", "key_metrics", "sections"}
    /\ DOMAIN args.analysis.sections = {"background", "challenge", "solution", "impact"}
    /\ args.analysis.sections["impact"] = 99
    /\ HasCheck(result, "multiple_projects")
    /\ result.status = CRITICAL

\* C11: when the markdown file does not exist, validate_case_study_format returns
\* status CRITICAL with exactly one check, file_exists, failed with severity
\* CRITICAL; relative_image_paths, clickable_screenshot_links and valid_timestamps
\* are not reported.
C11_MissingFileSingleCheck ==
    (fn = "validate_case_study_format" /\ raised = None /\ args.file.kind = "missing") =>
        /\ result.status = CRITICAL
        /\ Len(result.checks) = 1
        /\ result.checks[1].name = "file_exists"
        /\ ~result.checks[1].passed
        /\ result.checks[1].severity = CRITICAL
        /\ \A name \in {"relative_image_paths", "clickable_screenshot_links",
                         "valid_timestamps"} : ~HasCheck(result, name)

\* the validator returned for a path at which no file exists
C11_Witness ==
    /\ fn = "validate_case_study_format"
    /\ raised = None
    /\ args.file.kind = "missing"
    /\ result.status = CRITICAL
    /\ Emitted(result, "file_exists", CRITICAL)

\* C12: validate_case_study_format never raises for a path that cannot be read: a
\* missing file, an unreadable file (permission denied, a directory) and content
\* that does not decode are each reported as a ValidationResult with a single
\* failed CRITICAL check.
C12_UnreadableReportedNotRaised ==
    fn = "validate_case_study_format" =>
        /\ raised = None
        /\ args.file.kind # "file" =>
               /\ result.status = CRITICAL
               /\ Len(result.checks) = 1
               /\ ~result.checks[1].passed
               /\ result.checks[1].severity = CRITICAL

\* the image references ![...](images/...) of a document
ImageReferences(lines) ==
    FindallInLines(<<Lit("!["), LazyAny, Lit("](images/")>>, lines)

\* every image reference of the document is the image of a link
\* [![...](images/...)](https://www.youtube.com/watch?v=...&t=Ns)
EveryImageTimestampLinked(lines) ==
    Len(ImageReferences(lines)) = Len(FindallInLines(clickable_screenshot_pattern, lines))

\* C13: clickable_screenshot_links passes only if every screenshot image reference
\* ![...](images/...) of the document is wrapped in a markdown link to a YouTube
\* timestamped URL; an image that is bare or wrapped in a link to any other URL
\* makes the check fail CRITICAL.
C13_ClickableOnlyIfTimestampLinked ==
    (fn = "validate_case_study_format" /\ raised = None /\ args.file.kind = "file") =>
        IF EveryImageTimestampLinked(args.file.lines)
        THEN TRUE
        ELSE Emitted(result, "clickable_screenshot_links", CRITICAL)

\* the offsets <<i, j>> of a line (a string) at which an image reference
\* ![alt](case-studies/images/... stands: "![" at i, alt without "]", the path at j
AbsoluteReferences(l) ==
    LET marks == {i \in 0..(Len(l) - 2) : SubSeq(l, i + 1, i + 2) = "!["}
        paths == {j \in 0..(Len(l) - Len("](case-studies/images/")) :
                     SubSeq(l, j + 1, j + Len("](case-studies/images/"))
                         = "](case-studies/images/"}
    IN  {r \in marks \X paths :
            /\ r[1] + 2 <= r[2]
            /\ \A k \in (r[1] + 3)..r[2] : SubSeq(l, k, k) # "]"}

HasAbsoluteReference(lines) ==
    \E n \in 1..Len(lines) : AbsoluteReferences(lines[n]) # {}

\* the YouTube timestamped URL the edited references link to
timestamp_url == "https://www.youtube.com/watch?v=x&t=12s"

\* the line with its first reference ![alt](case-studies/images/rest) replaced by
\* [![alt](images/rest)](timestamp_url)
RelinkFirst(l) ==
    LET ref == CHOOSE r \in AbsoluteReferences(l) :
                   \A q \in AbsoluteReferences(l) : r[1] <= q[1]
        path == ref[2] + Len("](case-studies/images/")
        close == Least({k \in (path + 1)..Len(l) : SubSeq(l, k, k) = ")"})
    IN  SubSeq(l, 1, ref[1]) \o "[" \o SubSeq(l, ref[1] + 1, ref[2]) \o "](images/"
        \o SubSeq(l, path + 1, close) \o "](" \o timestamp_url \o ")"
        \o SubSeq(l, close + 1, Len(l))

\* the line with every such reference replaced
RECURSIVE Relinked(_)
Relinked(l) == IF AbsoluteReferences(l) = {} THEN l ELSE Relinked(RelinkFirst(l))

RelinkedFile(file) ==
    [kind |-> "file", lines |-> [n \in 1..Len(file.lines) |-> Relinked(file.lines[n])]]

\* C14: relative_image_paths fails CRITICAL iff the document contains at least one
\* image reference whose path starts with case-studies/images/; replacing every
\* such reference with images/... wrapped in a YouTube-timestamp link yields a
\* document for which relative_image_paths and clickable_screenshot_links both
\* pass and the status is PASS.
C14_AbsolutePathsRoundTrip ==
    (fn = "validate_case_study_format" /\ raised = None /\ args.file.kind = "file") =>
        /\ HasCheck(result, "relative_image_paths")
        /\ Emitted(result, "relative_image_paths", CRITICAL)
               <=> HasAbsoluteReference(args.file.lines)
        /\ HasAbsoluteReference(args.file.lines) =>
               LET relinked == validate_case_study_format(RelinkedFile(args.file))
               IN  /\ CheckNamed(relinked, "relative_image_paths").passed
                   /\ CheckNamed(relinked, "clickable_screenshot_links").passed
                   /\ relinked.status = PASS

\* the part of the claim that holds without exception: a document with an image
\* reference whose path starts with case-studies/images/ fails relative_image_paths
AbsoluteReferenceFails ==
    (fn = "validate_case_study_format" /\ raised = None /\ args.file.kind = "file"
        /\ HasAbsoluteReference(args.file.lines)) =>
        Emitted(result, "relative_image_paths", CRITICAL)

\* the round trip for a document with such references whose other lines hold no
\* link or image
RoundTripOfPlainDocument ==
    (fn = "validate_case_study_format" /\ raised = None /\ args.file.kind = "file"
        /\ HasAbsoluteReference(args.file.lines)
        /\ \A n \in 1..Len(args.file.lines) :
               \/ AbsoluteReferences(args.file.lines[n]) # {}
               \/ ~IsSubstring(Chars("]("), Chars(args.file.lines[n]))) =>
        LET relinked == validate_case_study_format(RelinkedFile(args.file))
        IN  /\ CheckNamed(relinked, "relative_image_paths").passed
            /\ CheckNamed(relinked, "clickable_screenshot_links").passed
            /\ relinked.status = PASS

\* in how many of the successful videos the code finds the presenter's name
MatchCount(presenter_name, videos) ==
    Len(SelectSeq(successful(videos), LAMBDA v : name_in_video(presenter_name, v)))

\* a name that is given, is not blank and is not a generic placeholder, at least
\* two successful videos, and no conflicting name detected
PresenterOtherwiseValid ==
    /\ fn = "validate_presenter"
    /\ raised = None
    /\ NameGiven(args.presenter_name)
    /\ Len(Strip(Chars(args.presenter_name))) > 0
    /\ ~is_generic(args.presenter_name)
    /\ Len(successful(args.videos)) >= min_successful_videos
    /\ Len(args.conflicts) = 0

\* C15: for validate_presenter with a non-generic name, at least 2 successful
\* videos and no conflicting names, the status is CRITICAL when the name appears in
\* fewer than 50% of the successful videos, WARNING when it appears in at least
\* 50% but fewer than 80%, and PASS when it appears in at least 80%.
C15_MatchRateStatus ==
    PresenterOtherwiseValid =>
        LET matches == MatchCount(args.presenter_name, args.videos)
            total == Len(successful(args.videos))
        IN  result.status = IF 2 * matches < total THEN CRITICAL
                            ELSE IF 5 * matches < 4 * total THEN WARNING
                            ELSE PASS

\* outside the band from 50% to 80% the status is the one the match rate asks for,
\* and inside it the result is PASS with has_warnings() true
MatchRateStatusInCode ==
    PresenterOtherwiseValid =>
        LET matches == MatchCount(args.presenter_name, args.videos)
            total == Len(successful(args.videos))
        IN  /\ result.status = IF 2 * matches < total THEN CRITICAL ELSE PASS
            /\ (2 * matches >= total /\ 5 * matches < 4 * total) => has_warnings(result)

\* the names the claim lists as generic
ClaimedGenericNames == {"Presenter", "Speaker", "User", "Person", "Name"}

\* C16: for each generic presenter name in {Presenter, Speaker, User, Person, Name},
\* validate_presenter returns status CRITICAL and its result contains a failed
\* check named not_generic_name.
C16_GenericNamesCritical ==
    (fn = "validate_presenter" /\ raised = None
        /\ args.presenter_name \in ClaimedGenericNames) =>
        /\ result.status = CRITICAL
        /\ \E i \in 1..Len(result.checks) :
               result.checks[i].name = "not_generic_name" /\ ~result.checks[i].passed

\* what the code does for the names of its own list: status CRITICAL and the
\* failed check not_generic
ListedGenericNamesCritical ==
    (fn = "validate_presenter" /\ raised = None /\ NameGiven(args.presenter_name)
        /\ Lower(Chars(args.presenter_name))
               \in {Chars(g) : g \in Range(presenter_generic_names)}) =>
        /\ result.status = CRITICAL
        /\ Emitted(result, "not_generic", CRITICAL)

\* the name "Name" is not in the code's list: it passes not_generic
NameIsNotListed ==
    (fn = "validate_presenter" /\ raised = None /\ args.presenter_name = "Name") =>
        CheckNamed(result, "not_generic").passed

\* with two videos that hold the word, "Name" is accepted as a presenter
NameAccepted ==
    /\ fn = "validate_presenter"
    /\ raised = None
    /\ args.presenter_name = "Name"
    /\ result.status = PASS

\* both required fields present, a name that is no placeholder, no placeholder
\* text in the biography and the three optional fields present
BiographyOtherwiseValid ==
    /\ fn = "validate_biography"
    /\ raised = None
    /\ \A i \in 1..Len(required_fields) : ~FieldMissing(args.biography_data, required_fields[i])
    /\ ~is_placeholder(Lower(full_name_of(args.biography_data)))
    /\ ~has_placeholder(bio_placeholder_patterns, Lower(biography_of(args.biography_data)))
    /\ \A i \in 1..Len(optional_fields) : ~FieldMissing(args.biography_data, optional_fields[i])

\* C17: for validate_biography with both required fields present, a non-placeholder
\* name, no placeholder text in the biography and all three optional fields
\* present, the status is CRITICAL when the biography has fewer than 100
\* characters, WARNING when it has at least 100 and fewer than 300, and PASS, with
\* has_warnings() false, when it has 300 or more.
C17_BiographyLengthStatus ==
    BiographyOtherwiseValid =>
        LET bio_length == Len(biography_of(args.biography_data))
        IN  IF bio_length < 100 THEN result.status = CRITICAL
            ELSE IF bio_length < 300 THEN result.status = WARNING
            ELSE result.status = PASS /\ ~has_warnings(result)

\* a biography of 299 characters, everything else in order: status WARNING
C17_Witness ==
    /\ BiographyOtherwiseValid
    /\ Len(biography_of(args.biography_data)) = 299
    /\ result.status = WARNING
    /\ Emitted(result, "biography_quality", WARNING)

\* in how many of the new successful videos the profile's name is found
NameMatches(existing_profile, videos) ==
    Len(SelectSeq(successful(videos),
                  LAMBDA v : in_video(Lower(Chars(existing_profile.name)), v)))

\* C18: validate_profile_update returns status CRITICAL whenever the existing
\* profile's presenter name is found in fewer than 50% of the new successful
\* videos (for example in 1 of 3 videos), not only when it is found in none.
C18_LowMatchRateCritical ==
    (fn = "validate_profile_update" /\ raised = None
        /\ Len(successful(args.videos)) >= 1
        /\ 2 * NameMatches(args.existing_profile, args.videos)
               < Len(successful(args.videos))) =>
        result.status = CRITICAL

\* what the code does with the match rate: CRITICAL only when the name is in none
\* of the new videos, WARNING below 30% and when a duplicate is found
ProfileUpdateStatusInCode ==
    (fn = "validate_profile_update" /\ raised = None
        /\ Len(successful(args.videos)) >= 1) =>
        LET matches == NameMatches(args.existing_profile, args.videos)
            total == Len(successful(args.videos))
        IN  result.status = IF matches = 0 THEN CRITICAL
                            ELSE IF 10 * matches < 3 * total \/ Len(args.duplicates) > 0
                                 THEN WARNING
                                 ELSE PASS

\* the name in 1 of 3 new videos, none of them processed before: status PASS
OneOfThreePasses ==
    /\ fn = "validate_profile_update"
    /\ raised = None
    /\ Len(successful(args.videos)) = 3
    /\ NameMatches(args.existing_profile, args.videos) = 1
    /\ Len(args.duplicates) = 0
    /\ result.status = PASS
    /\ has_warnings(result)

\* the score the result reports, in units of 1 / score_unit
ReportedScore(r) == CheckNamed(r, "overall_quality").details.score[1]

\* the five factor checks of a presenter-profile result
FactorChecks(r) == SelectSeq(r.checks, LAMBDA c : c.name # "overall_quality")

\* C19: validate_presenter_profile decides the status from the 5-factor score
\* against the caller-supplied threshold: a score below the threshold gives
\* CRITICAL; a score at or above the threshold but below 0.70 gives WARNING; a
\* score of at least 0.70 (and at least the threshold) with no failing factor
\* check gives PASS.
C19_ScoreDecidesStatus ==
    (fn = "validate_presenter_profile" /\ raised = None) =>
        LET score == ReportedScore(result)
            below == ScoreBelow(score, args.threshold)
            marginal == ScoreBelow(score, marginal_score)
        IN  /\ below => result.status = CRITICAL
            /\ (~below /\ marginal) => result.status = WARNING
            /\ (~below /\ ~marginal /\ \A i \in 1..Len(FactorChecks(result)) :
                                          FactorChecks(result)[i].passed)
                   => result.status = PASS

\* the first and the third case of the claim, which the code follows
ScoreDecidesStatusOutsideBand ==
    (fn = "validate_presenter_profile" /\ raised = None) =>
        LET score == ReportedScore(result)
            below == ScoreBelow(score, args.threshold)
            marginal == ScoreBelow(score, marginal_score)
        IN  /\ below => result.status = CRITICAL
            /\ (~below /\ ~marginal /\ \A i \in 1..Len(FactorChecks(result)) :
                                          FactorChecks(result)[i].passed)
                   => result.status = PASS

\* a marginal score, at least the threshold and below 0.70, with every factor
\* check passed: status PASS, has_warnings() true
MarginalScorePasses ==
    /\ fn = "validate_presenter_profile"
    /\ raised = None
    /\ ~ScoreBelow(ReportedScore(result), args.threshold)
    /\ ScoreBelow(ReportedScore(result), marginal_score)
    /\ \A i \in 1..Len(FactorChecks(result)) : FactorChecks(result)[i].passed
    /\ result.status = PASS
    /\ has_warnings(result)

\* the set of conflicting names validate_presenter iterates for the call's inputs
ConflictSet(a) ==
    IF Len(successful(a.videos)) = 0 THEN {}
    ELSE conflicting_names(a.presenter_name, a.videos)

\* C20: every validator is deterministic: two calls with identical inputs, in the
\* same or in different processes, produce identical to_dict() serializations,
\* including the order of the elements of every list under details (the
\* duplicates, existing_areas and conflicts lists, which are built from sets):
\* whatever order the sets are iterated in, the result is the one returned.
C20_Deterministic ==
    /\ (fn = "validate_profile_update" /\ raised = None) =>
           \A d \in Orderings(duplicate_ids(args.existing_profile, args.videos)),
              a \in Orderings(existing_areas_of(args.existing_profile)) :
               validate_profile_update(args.existing_profile, args.videos, d, a) = result
    /\ (fn = "validate_presenter" /\ raised = None) =>
           \A c \in Orderings(ConflictSet(args)) :
               validate_presenter(args.presenter_name, args.videos, c) = result

\* two checks that agree in everything but their details
SameButDetails(c, d) ==
    /\ c.name = d.name
    /\ c.passed = d.passed
    /\ c.severity = d.severity
    /\ c.message = d.message

SameButListOrder(r, s) ==
    /\ r.status = s.status
    /\ Len(r.checks) = Len(s.checks)
    /\ \A i \in 1..Len(r.checks) : SameButDetails(r.checks[i], s.checks[i])

\* the order of those lists is all that varies: status, check names, outcomes,
\* severities and messages are the same in whatever order the sets are iterated
OnlyListOrderVaries ==
    /\ (fn = "validate_profile_update" /\ raised = None) =>
           \A d \in Orderings(duplicate_ids(args.existing_profile, args.videos)),
              a \in Orderings(existing_areas_of(args.existing_profile)) :
               SameButListOrder(
                   validate_profile_update(args.existing_profile, args.videos, d, a), result)
    /\ (fn = "validate_presenter" /\ raised = None) =>
           \A c \in Orderings(ConflictSet(args)) :
               SameButListOrder(validate_presenter(args.presenter_name, args.videos, c), result)

\* two detected names that conflict with the presenter's: two possible orders
TwoConflictsListed ==
    /\ fn = "validate_presenter"
    /\ raised = None
    /\ Cardinality(ConflictSet(args)) = 2
    /\ Len(CheckNamed(result, "no_conflicting_names").details.conflicts) = 2

\* C21: every check with passed = false returned by any validator carries a reason,
\* a message that is not None; in particular company_exists and presenter_exists
\* when the name is not empty but consists only of whitespace.
C21_FailedChecksCarryMessage ==
    (fn \in Validators /\ raised = None) =>
        \A i \in 1..Len(result.checks) :
            ~result.checks[i].passed => result.checks[i].message # None

\* the failed checks without a message are company_exists and presenter_exists,
\* for a name that is not empty: every other failed check carries one
OtherFailedChecksCarryMessage ==
    (fn \in Validators /\ raised = None) =>
        \A i \in 1..Len(result.checks) :
            (~result.checks[i].passed /\ result.checks[i].message = None) =>
                \/ /\ fn = "validate_company_name"
                   /\ result.checks[i].name = "company_exists"
                   /\ NameTruthy(args.company_name)
                \/ /\ fn = "validate_presenter"
                   /\ result.checks[i].name = "presenter_exists"
                   /\ NameGiven(args.presenter_name)

\* a presenter name of one blank: presenter_exists failed without a message
BlankPresenterHasNoReason ==
    /\ fn = "validate_presenter"
    /\ raised = None
    /\ args.presenter_name = " "
    /\ ~CheckNamed(result, "presenter_exists").passed
    /\ CheckNamed(result, "presenter_exists").message = None

\* the positions of the checks of severity WARNING, passed or not
WarningChecks(r) == {i \in 1..Len(r.checks) : r.checks[i].severity = WARNING}

\* C22: has_warnings() is true iff at least one check of the result has severity
\* WARNING, whatever that check's passed flag and whatever the status (so it can
\* be true under status CRITICAL and under status PASS); is_critical() is true
\* iff the status is CRITICAL.
C22_WarningsAndCritical ==
    (fn \in Validators /\ raised = None) =>
        /\ has_warnings(result) <=> Cardinality(WarningChecks(result)) > 0
        /\ is_critical(result) <=> result.status \notin {PASS, WARNING, INFO}

\* has_warnings() true under status PASS: the only WARNING check passed
C22_Witness ==
    /\ fn \in Validators
    /\ raised = None
    /\ result.status = PASS
    /\ has_warnings(result)
    /\ \A i \in WarningChecks(result) : result.checks[i].passed

\* has_warnings() true under status CRITICAL
WarningsUnderCritical ==
    /\ fn \in Validators
    /\ raised = None
    /\ is_critical(result)
    /\ has_warnings(result)

\* the records of the returned videos whose stored validation is CRITICAL
CriticalVideos ==
    {i \in 1..Len(result.videos) :
        /\ "validation" \in DOMAIN result.videos[i]
        /\ result.videos[i].validation.status = CRITICAL}

\* the number of records with the success flag f
CountSuccess(videos, f) == Cardinality({i \in 1..Len(videos) : videos[i].success = f})

\* C23: a video whose validation stored by fetch_video_data is CRITICAL is
\* recorded with success=False and the error "Critical validation failure",
\* and is counted in stats.failed, not in stats.succeeded
C23_CriticalValidationFails ==
    fn = "fetch_multi_video_data" =>
        /\ \A i \in CriticalVideos :
              /\ result.videos[i].success = FALSE
              /\ Get(result.videos[i], "error") = "Critical validation failure"
        /\ result.stats.succeeded <= Len(result.videos) - Cardinality(CriticalVideos)

\* what the code does: the status is stored under "status", the "severity" key
\* is absent, and every video that fetch_video_data returned is a success
FetchedVideosSucceed ==
    fn = "fetch_multi_video_data" =>
        \A i \in 1..Len(result.videos) :
            "validation" \in DOMAIN result.videos[i] =>
                /\ Get(result.videos[i].validation, "severity") = None
                /\ result.videos[i].success = TRUE

\* a transcript without segments, CRITICAL, is returned as a success
CriticalVideoSucceeds ==
    /\ fn = "fetch_multi_video_data"
    /\ \E i \in CriticalVideos : result.videos[i].success = TRUE

\* C29: the result has one record per URL, in input order, each with a boolean
\* success flag, succeeded + failed = total = len(urls) = len(videos), and the
\* success rate of an empty list is 0.0
C29_OneRecordPerUrl ==
    fn = "fetch_multi_video_data" =>
        /\ Len(result.videos) = Len(args.urls)
        /\ \A i \in 1..Len(args.urls) :
              /\ result.videos[i].url = args.urls[i].url
              /\ result.videos[i].success \in BOOLEAN
        /\ result.stats.total = Len(args.urls)
        /\ result.stats.succeeded = CountSuccess(result.videos, TRUE)
        /\ result.stats.failed = CountSuccess(result.videos, FALSE)
        /\ result.stats.succeeded + result.stats.failed = result.stats.total
        /\ result.stats.success_rate[1] * result.stats.total =
               result.stats.succeeded * result.stats.success_rate[2]
        /\ args.urls = <<>> => result.stats.success_rate = <<0, 1>>

\* the loop went on after a URL that raised, to a video that succeeded
C29_Witness ==
    /\ fn = "fetch_multi_video_data"
    /\ Len(args.urls) = MaxUrls
    /\ result.videos[1].success = FALSE
    /\ "validation" \notin DOMAIN result.videos[1]
    /\ result.videos[MaxUrls].success = TRUE

\* the empty list of URLs is processed
EmptyUrlList == fn = "fetch_multi_video_data" /\ args.urls = <<>>

\* the validators whose WARNING checks are all failed checks
WarningFailingValidators ==
    {"validate_transcript", "validate_company_name", "validate_analysis",
     "validate_metrics", "validate_company_consistency", "validate_biography"}

\* C24: in validate_transcript, validate_company_name, validate_analysis,
\* validate_metrics, validate_company_consistency and validate_biography every
\* check of severity WARNING is a failed check, a result of status PASS has no
\* warning, and has_warnings() and not is_critical() is the status WARNING
C24_WarningsOnlyFromFailedChecks ==
    (fn \in WarningFailingValidators /\ raised = None) =>
        /\ \A i \in WarningChecks(result) : ~result.checks[i].passed
        /\ result.status = PASS => ~has_warnings(result)
        /\ (has_warnings(result) /\ ~is_critical(result)) <=> result.status = WARNING

\* each of the six validators returned a result of status WARNING
C24_Witness ==
    /\ fn \in WarningFailingValidators
    /\ raised = None
    /\ result.status = WARNING
    /\ has_warnings(result)

\* the short_transcript check of the result is there, failed, of severity WARNING
ShortTranscriptFailed ==
    /\ HasCheck(result, "short_transcript")
    /\ ~CheckNamed(result, "short_transcript").passed
    /\ CheckNamed(result, "short_transcript").severity = WARNING

\* C25: validate_transcript emits the failed WARNING check short_transcript for
\* every transcript shorter than 5000 characters, whatever the CRITICAL checks
\* gave, the empty transcript of length 0 included
C25_ShortTranscriptBelowLimit ==
    (fn = "validate_transcript" /\ ~args.transcript.is_none
        /\ args.transcript.length < short_length) => ShortTranscriptFailed

\* C25 as the code has it: the check is emitted exactly for the transcripts that
\* are not empty and shorter than 5000 characters, whatever the CRITICAL checks
\* gave; the empty transcript and None get no short_transcript check
C25_ShortTranscriptNonEmptyBelowLimit ==
    fn = "validate_transcript" =>
        /\ HasCheck(result, "short_transcript") <=>
               (/\ ~args.transcript.is_none
                /\ args.transcript.length > 0
                /\ args.transcript.length < short_length)
        /\ HasCheck(result, "short_transcript") => ShortTranscriptFailed

\* a transcript just under the limit that fails a CRITICAL check carries the check
C25_Witness ==
    /\ fn = "validate_transcript"
    /\ args.transcript.length = short_length - 1
    /\ ShortTranscriptFailed
    /\ result.status = CRITICAL

\* a transcript under the limit with every CRITICAL check passed
ShortTranscriptAlone ==
    /\ fn = "validate_transcript"
    /\ ShortTranscriptFailed
    /\ result.status = WARNING

\* the empty transcript returns the four CRITICAL checks only
EmptyTranscriptNoShortCheck ==
    /\ fn = "validate_transcript"
    /\ ~args.transcript.is_none
    /\ args.transcript.length = 0
    /\ Len(result.checks) = 4
    /\ ~HasCheck(result, "short_transcript")

\* the offsets i of a line (a string) at which a bare image reference stands:
\* "![" at i with no "[" before it, alt without "]", then a path under images/
\* or case-studies/images/
BareImages(l) ==
    LET marks == {i \in 0..(Len(l) - 2) :
                     /\ SubSeq(l, i + 1, i + 2) = "!["
                     /\ i > 0 => SubSeq(l, i, i) # "["}
        PathAt(j, path) == /\ j + Len(path) <= Len(l)
                           /\ SubSeq(l, j + 1, j + Len(path)) = path
    IN  {i \in marks :
            \E j \in (i + 2)..Len(l) :
                /\ PathAt(j, "](images/") \/ PathAt(j, "](case-studies/images/")
                /\ \A k \in (i + 3)..j : SubSeq(l, k, k) # "]"}

\* the lines of a document that hold a bare image reference
BareImageLines(lines) == {n \in 1..Len(lines) : BareImages(lines[n]) # {}}

\* the line holds an image wrapped in a link, as line 499 of the code tests it
HasWrappedImage(l) == RegexSearch(linked_image_line_pattern, Chars(l))

\* C26: every bare image reference to images/... or case-studies/images/...
\* makes clickable_screenshot_links fail CRITICAL, also when the bare image
\* shares its line with an image that is wrapped in a link
C26_BareImageFails ==
    (fn = "validate_case_study_format" /\ raised = None /\ args.file.kind = "file"
        /\ BareImageLines(args.file.lines) # {}) =>
        Emitted(result, "clickable_screenshot_links", CRITICAL)

\* what the code does: the check fails when a bare image stands on a line
\* without a wrapped image
BareImageOnOwnLineFails ==
    (fn = "validate_case_study_format" /\ raised = None /\ args.file.kind = "file"
        /\ \E n \in BareImageLines(args.file.lines) : ~HasWrappedImage(args.file.lines[n])) =>
        Emitted(result, "clickable_screenshot_links", CRITICAL)

\* a bare image beside a wrapped one, and the check passed
BareImageBesideWrappedPasses ==
    /\ fn = "validate_case_study_format"
    /\ raised = None
    /\ args.file.kind = "file"
    /\ BareImageLines(args.file.lines) # {}
    /\ CheckNamed(result, "clickable_screenshot_links").passed

\* C27: valid_timestamps is emitted iff at least one clickable YouTube-linked
\* screenshot is matched, and whenever it is emitted it has passed: the timestamps
\* are read with the digits-only pattern &t=(\d+)s, so none is negative and the
\* failing CRITICAL branch is never taken
C27_ValidTimestampsAlwaysPass ==
    (fn = "validate_case_study_format" /\ raised = None /\ args.file.kind = "file") =>
        /\ HasCheck(result, "valid_timestamps") <=>
               Len(FindallInLines(clickable_screenshot_pattern, args.file.lines)) > 0
        /\ HasCheck(result, "valid_timestamps") =>
               /\ CheckNamed(result, "valid_timestamps").passed
               /\ CheckNamed(result, "valid_timestamps").severity = INFO
               /\ \A i \in 1..Len(CheckNamed(result, "valid_timestamps").details.timestamps) :
                      CheckNamed(result, "valid_timestamps").details.timestamps[i] >= 0

\* a clickable screenshot whose URL holds the text &t=-5s: the check passed,
\* with the one timestamp 3
C27_Witness ==
    /\ fn = "validate_case_study_format"
    /\ raised = None
    /\ args.file.kind = "file"
    /\ args.file.lines = <<"[![a](images/a.png)](https://www.youtube.com/watch?v=x&t=-5s&t=3s)">>
    /\ HasCheck(result, "valid_timestamps")
    /\ CheckNamed(result, "valid_timestamps").passed
    /\ CheckNamed(result, "valid_timestamps").details.timestamps = <<3>>

\* a document without a clickable screenshot: no valid_timestamps check
NoClickableNoTimestampCheck ==
    /\ fn = "validate_case_study_format"
    /\ raised = None
    /\ args.file.kind = "file"
    /\ result.status = PASS
    /\ ~HasCheck(result, "valid_timestamps")

\* the four results of the command's arguments, each computed on its own
ExpectedResults ==
    [transcript |-> validate_transcript(args.video_data.transcript, args.video_data.segments),
     analysis |-> validate_analysis(args.analysis),
     metrics |-> validate_metrics(args.sections, args.video_data.text, args.analysis),
     consistency |-> validate_company_consistency(expected_company_of(args.verification),
                                                  args.sections, args.video_data)]

\* the four results are reported in order and the exit code is 2 iff the
\* transcript, analysis or consistency result is CRITICAL, otherwise 1 iff one of
\* the four results has warnings, otherwise 0
FourResultsAggregated ==
    /\ result.reported
    /\ [i \in 1..Len(result.all_results) |-> result.all_results[i].key] =
           <<"transcript", "analysis", "metrics", "consistency">>
    /\ \A i \in 1..Len(result.all_results) :
           /\ result.all_results[i].value.status =
                  ExpectedResults[result.all_results[i].key].status
           /\ result.all_results[i].value.checks =
                  ExpectedResults[result.all_results[i].key].checks
    /\ exit_code =
           IF \E k \in {"transcript", "analysis", "consistency"} :
                  is_critical(ExpectedResults[k])
           THEN 2
           ELSE IF \E k \in DOMAIN ExpectedResults : has_warnings(ExpectedResults[k])
           THEN 1
           ELSE 0

AllStepsComplete ==
    /\ args.unreadable = ""
    /\ ~(/\ args.video_data.transcript.is_none
          /\ \E i \in 1..Len(args.sections) : args.sections[i] = "50%")

MetricsWarningExitsOne ==
    /\ fn = "validate-all"
    /\ result.reported
    /\ \A i \in {1, 2, 4} : result.all_results[i].value.status = PASS
    /\ result.all_results[3].value.status = WARNING
    /\ exit_code = 1

\* four results of status PASS: exit code 0
AllPassExitsZero ==
    /\ fn = "validate-all"
    /\ result.reported
    /\ \A i \in 1..4 : result.all_results[i].value.status = PASS
    /\ exit_code = 0

\* a null transcript is CRITICAL, then the metrics step raises: the command has
\* stopped after two results
StopsAfterCriticalTranscript ==
    /\ fn = "validate-all"
    /\ args.unreadable = ""
    /\ ~result.reported
    /\ Len(result.all_results) = 2
    /\ result.all_results[1].value.status = CRITICAL
    /\ exit_code = 2

\* the analysis file does not load: exit code 2 with no CRITICAL result
UnreadableFileExitsTwo ==
    /\ fn = "validate-all"
    /\ args.unreadable = "analysis"
    /\ Len(result.all_results) = 1
    /\ result.all_results[1].value.status = PASS
    /\ exit_code = 2

\* C30: for every existing, readable case study validate_case_study returns a
\* ValidationResult aggregated from its checks (one overall_score check, failed
\* CRITICAL below 0.60, failed WARNING from 0.60 to below 0.75, passed otherwise,
\* and one failed WARNING content_issue check per warning) instead of raising,
\* and the validate command exits 0 for a case study that passes
C30_CaseStudyResultReturned ==
    /\ (fn = "validate_case_study" /\ args.file.kind = "file") =>
           /\ raised = None
           /\ result.checks = case_study_checks(args.file.score, args.file.warnings)
    /\ (fn = "validate" /\ args.file.kind = "file" /\ args.file.score >= warning_score
           /\ args.file.warnings = <<>>) =>
           exit_code \in {0, NoExit}

\* what the code does: validate_case_study raises for every file and the
\* validate command exits 1 for every file
CaseStudyAlwaysRaises ==
    /\ fn = "validate_case_study" => (raised # None /\ result = NoResult)
    /\ fn = "validate" => exit_code = failure_exit

\* a readable case study with a perfect score and no warning: AttributeError
PerfectCaseStudyRaises ==
    /\ fn = "validate_case_study"
    /\ args.file.kind = "file"
    /\ args.file.score = 100
    /\ args.file.warnings = <<>>
    /\ raised = "AttributeError"

====
